---- MODULE Spec2Model ----
(***************************************************************************)
(* Model of the Wallhaven sync core of the Background extension:           *)
(*   - the catalog engine      (extension/wallhaven/catalog.ts)            *)
(*   - the sync pipeline       (extension/wallhaven/index.ts)              *)
(*   - the content cache       (extension/wallhaven/cache.ts)              *)
(*   - the sync timer          (extension/wallhaven/index.ts scheduleNext) *)
(*   - the daily rotation      (services/wallpaper.ts, StateStore)         *)
(*   - the interactive search  (sidebar and search tree view)              *)
(*                                                                         *)
(* Source lines below refer to src/src/extension/wallhaven/*.ts.  The file *)
(* types.ts carries types.ts, client.ts, cache.ts and scheduler.ts one     *)
(* after the other, so cache.ts and scheduler.ts line numbers are the line *)
(* numbers inside types.ts.                                                *)
(* part_001, part_002 and part_003 are the files of src/unnamed: the       *)
(* search providers, the commands of extension.ts and the StateStore.      *)
(*                                                                         *)
(* Execution model: one JavaScript thread.  Every action below is one      *)
(* run-to-completion segment of a handler: from its start, or from the     *)
(* resumption of an await, up to the next await that really suspends on    *)
(* the network, the settings store or a prompt.  File reads and writes are *)
(* synchronous (readFileSync / writeFileSync / unlinkSync) and are part of *)
(* the segment that issues them; they are taken to succeed.                *)
(***************************************************************************)
EXTENDS Integers, Sequences, FiniteSets, TLC

\* ------------------------------------------------------------------------
\* Bounds of the model (not program constants)
\* ------------------------------------------------------------------------
\* number of distinct wallpaper ids the remote search can deliver
NumIds == 2
\* value of the "wallhaven.cacheMax" setting as seen by cacheMax()
CacheMax == 1
\* value of the "wallhaven.fetchPerDay" setting as seen by fetchPerDay()
FetchLimit == 2
\* the clock runs from 1 to MaxTime (coarse ticks of Date.now())
MaxTime == 2
\* number of coroutine slots for syncNow bodies (more than the guard admits)
NumSlots == 2
\* syncNow bodies started and changes of the enabled setting explored in
\* one behaviour
MaxRuns == 2
MaxToggles == 2
\* the catalog functions checked on their own: number of ids, and longest
\* feed drawn as an input (favourites and fresh lists are one shorter)
PureIds == 3
MaxLen == 3
\* the content cache checked on its own: number of image URLs, and calls
\* of downloadImage made one after the other in one behaviour
NumUrls == 2
MaxCalls == 3
\* the daily rotation checked on its own: local calendar dates 1 .. MaxDays,
\* number of wallpaper collections, handleMidnight invocations that can be
\* in flight together, and activations of the extension in one behaviour
MaxDays == 3
NumColls == 1
NumMid == 2
MaxStarts == 2
\* the interactive searches checked on their own: requests made in one
\* behaviour, distinct queries, and pages the remote search has
MaxRequests == 3
NumQueries == 2
MaxPage == 2
\* the time utility checked on its own: longest text handed to
\* parseRefreshTime, and the first year and the number of years of the
\* calendar days handed to getNextRunAt
MaxText == 6
FirstYear == 2023
NumYears == 2

\* ------------------------------------------------------------------------
\* Values
\* ------------------------------------------------------------------------
ApiIds == 1 .. NumIds
\* length of a day in ticks of the coarse clock, and the tick of the day
\* the refresh time "wallhaven.refreshTimeLocal" falls on
DayLen == 3
TriggerSlot == 2
\* ids of manually created favourites are "manual-<Date.now()>": a range
\* disjoint from the ids of the remote API
ManualBase == 100
\* a background path configured by the user outside the cache directory
UserPath == 50
\* absent optional field (undefined)
None == 0
NoError == "none"

UIs == <<"window", "editor", "sidebar", "panel">>
UISet == {"window", "editor", "sidebar", "panel"}

Max2(a, b) == IF a >= b THEN a ELSE b
Min2(a, b) == IF a <= b THEN a ELSE b

\* the largest element of a non-empty set of integers
MaxOf(S) == CHOOSE x \in S : \A y \in S : y <= x

\* ------------------------------------------------------------------------
\* Catalog engine (catalog.ts)
\* ------------------------------------------------------------------------
\* CachedImage: id, localPath (path) and fetchedAt (at); sourceUrl and tags
\* are carried along untouched by every operation and are left out.
Item(id, path, at) == [id |-> id, path |-> path, at |-> at]

IdsOf(items) == {items[k].id : k \in DOMAIN items}
PathsOf(items) == {items[k].path : k \in DOMAIN items}
IdSeq(items) == [k \in DOMAIN items |-> items[k].id]

EmptyCatalog ==
    [feed |-> <<>>, favorites |-> <<>>, lastSyncAt |-> None,
     nextScheduledAt |-> None, lastError |-> NoError]

RECURSIVE dedupeLoop(_, _, _)
dedupeLoop(items, seen, result) ==
    IF items = <<>> THEN result
    ELSE LET item == Head(items) IN
         IF item.id \in seen
         THEN dedupeLoop(Tail(items), seen, result)
         ELSE dedupeLoop(Tail(items), seen \cup {item.id}, Append(result, item))

\* plausible slip: no de-duplication at all
dedupeByIdIdentity(items) == items

dedupeById(items) == dedupeLoop(items, {}, <<>>)

\* plausible slip: fresh items appended behind the old feed
mergeFeedAppend(catalog, fresh) ==
    [catalog EXCEPT !.feed = dedupeById(catalog.feed \o fresh)]

\* plausible slip: fresh items prepended without de-duplication
mergeFeedNoDedupe(catalog, fresh) ==
    [catalog EXCEPT !.feed = fresh \o catalog.feed]

mergeFeed(catalog, fresh) ==
    [catalog EXCEPT !.feed = dedupeById(fresh \o catalog.feed)]

\* plausible slip: the item is appended behind the existing favourites
addFavoriteAppend(catalog, item) ==
    [catalog EXCEPT !.favorites = dedupeById(Append(catalog.favorites, item))]

addFavorite(catalog, item) ==
    [catalog EXCEPT !.favorites = dedupeById(<<item>> \o catalog.favorites)]

removeFavorite(catalog, id) ==
    [catalog EXCEPT !.favorites =
        SelectSeq(catalog.favorites, LAMBDA item : item.id # id)]

\* result.splice(index, 1)
Splice(s, index) ==
    [k \in 1 .. (Len(s) - 1) |-> IF k < index THEN s[k] ELSE s[k + 1]]

\* plausible slip: indexOf in place of lastIndexOf
FirstNonFavorite(result, favoriteIds) ==
    LET S == {k \in DOMAIN result : result[k].id \notin favoriteIds}
    IN  IF S = {} THEN 0 ELSE CHOOSE k \in S : \A j \in S : k <= j

\* plausible slip: the last item is evicted whether favourited or not
LastAny(result, favoriteIds) == Len(result)

\* result.map(item => favoriteIds.has(item.id)).lastIndexOf(false),
\* 1-based, 0 when there is none
LastNonFavorite(result, favoriteIds) ==
    LET S == {k \in DOMAIN result : result[k].id \notin favoriteIds}
    IN  IF S = {} THEN 0 ELSE MaxOf(S)

RECURSIVE pruneLoop(_, _, _, _)
pruneLoop(result, removed, favoriteIds, keep) ==
    IF Len(result) > keep
    THEN LET index == LastNonFavorite(result, favoriteIds) IN
         IF index = 0
         THEN [feed |-> result, removed |-> removed]
         ELSE pruneLoop(Splice(result, index), Append(removed, result[index]),
                        favoriteIds, keep)
    ELSE [feed |-> result, removed |-> removed]

\* plausible slip: the loop stops one item too early
pruneCatalogOffByOne(catalog, maxItems) ==
    LET r == pruneLoop(catalog.feed, <<>>, IdsOf(catalog.favorites),
                       Max2(1, maxItems) + 1)
    IN  [catalog |-> [catalog EXCEPT !.feed = r.feed], removed |-> r.removed]

pruneCatalog(catalog, maxItems) ==
    LET r == pruneLoop(catalog.feed, <<>>, IdsOf(catalog.favorites),
                       Max2(1, maxItems))
    IN  [catalog |-> [catalog EXCEPT !.feed = r.feed], removed |-> r.removed]

\* plausible slip: the fresh items are put behind the old feed before the
\* feed is pruned
mergedAndPrunedAppending(catalog, fresh, maxItems) ==
    pruneCatalog(mergeFeedAppend(catalog, fresh), maxItems)

\* syncNow: the fresh items are merged into the catalog and the result is
\* pruned (index.ts:202-203)
mergedAndPruned(catalog, fresh, maxItems) ==
    pruneCatalog(mergeFeed(catalog, fresh), maxItems)

\* ------------------------------------------------------------------------
\* Scheduler arithmetic on the coarse clock (scheduler.ts)
\* ------------------------------------------------------------------------
\* withLocalTime(at, hour, minute): the refresh instant of the day of `at`
withLocalTime(at) == (at \div DayLen) * DayLen + TriggerSlot

getNextRunAt(t) ==
    LET today == withLocalTime(t)
    IN  IF t < today THEN today ELSE today + DayLen

shouldCatchUpNowAnySync(t, lastSyncAt) ==
    LET slot == withLocalTime(t)
    IN  IF t < slot THEN FALSE ELSE TRUE

shouldCatchUpNow(t, lastSyncAt) ==
    LET slot == withLocalTime(t)
    IN  IF t < slot THEN FALSE ELSE (lastSyncAt = None \/ lastSyncAt < slot)

\* ------------------------------------------------------------------------
\* State
\* ------------------------------------------------------------------------
VARIABLES
    ctx,          \* state.context is set                     (index.ts:22)
    enabled,      \* setting "wallhaven.enabled"              (index.ts:47)
    mode,         \* setting "wallhaven.mode"                 (index.ts:42)
    mapping,      \* setting "wallhaven.mapping"              (index.ts:74)
    syncRunning,  \* state.syncRunning                        (index.ts:24)
    timer,        \* state.timer and the instant it is due    (index.ts:23)
    pendingTimers,\* number of scheduleNext timeouts pending in the runtime
    catalog,      \* the persisted catalog.json               (index.ts:33)
    files,        \* paths present in the cache directory     (index.ts:34)
    current,      \* state.current, per surface               (index.ts:25)
    backgrounds,  \* settings "<ui>Backgrounds", per surface  (index.ts:95)
    now,          \* Date.now()
    run,          \* the syncNow bodies in flight, per slot
    initPc,       \* position of initializeWallhaven
    lastReturn,   \* history: how the last syncNow call to return since the
                  \* latest run began returned
    lastRun,      \* history: outcome of the last run that passed the guard
    budget,       \* history: operations performed so far, by kind
    pin,          \* input of a pure function checked on its own
    pout,         \* its output
    disk,         \* files under the directory given to downloadImage
    dl,           \* the downloadImage call in flight
    dlog,         \* history: the downloadImage calls that have ended
    store,        \* StateStore.state, persisted as a whole (part_003:24-30)
    rotTimer,     \* DailyRotationScheduler.timer      (wallpaper.ts:45)
    rotPending,   \* number of the scheduler's timeouts pending in the runtime
    flow,         \* position of initialize() (flow 0) and of each
                  \* handleMidnight invocation in flight
    cmd,          \* position of the command that calls schedule() at its end
    today,        \* localDate()
    phase,        \* activation of the extension: off, init, ready, failed
    disposed,     \* history: dispose() has been called on the scheduler
    applied,      \* history: wallpapers applied by rotation, per date
    fires,        \* history: midnight callbacks started, and what the
                  \* latest one found
    starts,       \* history: activations so far
    side,         \* SidebarWebviewProvider.state       (part_001:414-422)
    refreshVersion, \* SidebarWebviewProvider.refreshVersion (part_001:423)
    initialized,  \* SidebarWebviewProvider.initialized    (part_001:424)
    sreq,         \* the refreshSearch calls, by the version they drew
    arrivals,     \* history: the responses of the sidebar, as they came
    tree,         \* SearchTreeProvider.state             (part_001:52-56)
    tcfg,         \* settings wallhaven.query, .sort, .page (part_001:149-160)
    thand,        \* the search command awaiting a settings update
    treq,         \* the refresh() calls, in the order they started
    tstarted,     \* number of refresh() calls started
    tarrivals,    \* history: the responses of the tree view, as they came
    sw,           \* the searchWallpapers call: its locals, and history
    favDuring     \* history: a favourite was added or removed while a
                  \* sync run was in flight

sysVars == <<ctx, enabled, mode, mapping, syncRunning, timer, pendingTimers,
             catalog, files, current, backgrounds, now, run, initPc,
             lastReturn, lastRun, budget>>
cacheVars == <<disk, dl, dlog>>
\* the variables of the parts that are checked on their own
rotVars == <<store, rotTimer, rotPending, flow, cmd, today, phase, disposed,
             applied, fires, starts>>
sideVars == <<side, refreshVersion, initialized, sreq, arrivals>>
treeVars == <<tree, tcfg, thand, treq, tstarted, tarrivals>>
partVars == <<cacheVars, rotVars, sideVars, treeVars, sw, favDuring>>
pureVars == <<pin, pout, partVars>>
vars == <<sysVars, pureVars>>

Slots == 1 .. NumSlots

NoTimer == [state |-> "none", due |-> 0]

IdleRun ==
    [pc |-> "idle", target |-> <<>>, i |-> 0, fresh |-> <<>>,
     outcomes |-> <<>>, syncAt |-> None, globs |-> <<>>, k |-> 0,
     mapped |-> <<>>]

NoInput == [op |-> "none"]

\* ------------------------------------------------------------------------
\* Settings readers and small helpers of index.ts
\* ------------------------------------------------------------------------
cacheMax == CacheMax
fetchPerDay == FetchLimit

\* "<cacheDir>/<sha256(imageUrl)><ext>": one path per remote wallpaper
CachePath(id) == id

\* items.slice(index) ++ items.slice(0, index), index counted from 0
pickFromPool(items, ui) ==
    IF items = <<>> THEN <<>>
    ELSE IF mapping # "perSurface" THEN items
    ELSE LET index == CASE ui = "window" -> 0 [] ui = "editor" -> 1
                        [] ui = "sidebar" -> 2 [] OTHER -> 3
             cut == Min2(index, Len(items))
         IN  SubSeq(items, cut + 1, Len(items)) \o SubSeq(items, 1, cut)

\* mapped[0], undefined when the list is empty
First(list) == IF list = <<>> THEN None ELSE list[1]

\* plausible slip: the running flag is not consulted
SyncGuardNoFlag(hasContext) == hasContext /\ enabled

\* the negation of the early return of syncNow; hasContext is !!state.context
SyncGuard(hasContext) == hasContext /\ ~syncRunning /\ enabled

\* plausible slip: the timer is cleared but no new one is armed
scheduleNextTimerDropped == NoTimer

\* scheduleNext: the timer it leaves behind
scheduleNextTimer ==
    IF enabled THEN [state |-> "armed", due |-> getNextRunAt(now)] ELSE NoTimer

\* plausible slip: scheduleNext forgets to clear the timer it replaces
scheduleNextPendingNoClear == pendingTimers + (IF enabled THEN 1 ELSE 0)

\* scheduleNext: the timeouts pending after clearTimeout(state.timer), which
\* removes the timeout unless it has fired, and setTimeout (index.ts:250-271)
scheduleNextPending ==
    (IF timer.state = "armed" THEN pendingTimers - 1 ELSE pendingTimers)
      + (IF enabled THEN 1 ELSE 0)

\* plausible slip: scheduleNext writes back a catalog it read before the
\* favourites were last changed
scheduleNextCatalogStale(cat) ==
    IF enabled THEN [cat EXCEPT !.nextScheduledAt = getNextRunAt(now),
                                !.favorites = <<>>]
    ELSE cat

\* scheduleNext: the catalog it leaves behind, given the catalog on disk
scheduleNextCatalog(cat) ==
    IF enabled THEN [cat EXCEPT !.nextScheduledAt = getNextRunAt(now)] ELSE cat

\* plausible slip: lastError is not reset on success
clearedErrorKept(cat) == cat.lastError

\* lastError: undefined
clearedError(cat) == NoError

FreeSlots == {p \in Slots : run[p].pc = "idle"}
InFlight == {p \in Slots : run[p].pc # "idle"}

\* the slot a new syncNow body takes
NewSlot == CHOOSE p \in FreeSlots : \A q \in FreeSlots : p <= q

\* ------------------------------------------------------------------------
\* Initial state: a fresh installation, nothing persisted yet
\* ------------------------------------------------------------------------
SysInit ==
    /\ ctx = FALSE
    /\ enabled = FALSE
    /\ mode = "daily"
    /\ mapping = "unset"
    /\ syncRunning = FALSE
    /\ timer = NoTimer
    /\ pendingTimers = 0
    /\ catalog = EmptyCatalog
    /\ files = {}
    /\ current = [ui \in UISet |-> None]
    /\ backgrounds = [ui \in UISet |-> IF ui = "window" THEN <<UserPath>> ELSE <<>>]
    /\ now = 1
    /\ run = [p \in Slots |-> IdleRun]
    /\ initPc = "new"
    /\ lastReturn = "none"
    /\ lastRun = "none"
    /\ budget = [runs |-> 0, toggles |-> 0]

\* no downloadImage call made yet, the cache directory empty
CacheIdle ==
    /\ disk = {}
    /\ dl = [pc |-> "idle"]
    /\ dlog = <<>>

\* the extension not yet activated, nothing persisted (part_003:34-40)
RotIdle ==
    /\ store = [collections |-> [c \in 1 .. NumColls |-> "none"],
                activeWallpaper |-> None, enabledCollectionId |-> None,
                lastRotationDate |-> None,
                pendingRotationCollectionId |-> None]
    /\ rotTimer = [state |-> "none", due |-> 0]
    /\ rotPending = 0
    /\ flow = [f \in 0 .. NumMid |->
                 [pc |-> "idle", coll |-> None, startup |-> FALSE,
                  hadPending |-> None, rotated |-> FALSE]]
    /\ cmd = [pc |-> "idle", coll |-> None]
    /\ today = 1
    /\ phase = "off"
    /\ disposed = FALSE
    /\ applied = [d \in 1 .. MaxDays |-> 0]
    /\ fires = [n |-> 0, found |-> "", active |-> FALSE]
    /\ starts = 0

\* the interactive searches: versions of requests, queries, pages
Versions == 1 .. MaxRequests
Queries == 1 .. NumQueries
Pages == 1 .. MaxPage
\* two of the five sort tabs (part_001:384)
Sorts == {"date_added", "views"}
NoRequest == [pc |-> "none", query |-> 0, sort |-> "", page |-> 0]
IdleHandler == [pc |-> "idle", query |-> 0, sort |-> "", page |-> 0]

\* the sidebar as constructed (part_001:414-424, 433-438), the settings
\* holding the first query, the default sort and page 1
SideIdle ==
    /\ side = [query |-> 1, sort |-> "date_added", page |-> 1,
               lastPage |-> 1, loading |-> FALSE, error |-> "null",
               results |-> <<>>]
    /\ refreshVersion = 0
    /\ initialized = FALSE
    /\ sreq = [v \in Versions |-> NoRequest]
    /\ arrivals = <<>>

\* the provider as constructed (part_001:52-56), the settings holding the
\* first query, the default sort and page 1
TreeIdle ==
    /\ tree = [loading |-> FALSE, lastPage |-> 1, items |-> <<>>,
               error |-> "undefined"]
    /\ tcfg = [query |-> 1, sort |-> "date_added", page |-> 1]
    /\ thand = IdleHandler
    /\ treq = [n \in Versions |-> NoRequest]
    /\ tstarted = 0
    /\ tarrivals = <<>>

\* no searchWallpapers call made yet
NoSearch == [pc |-> "idle", options |-> 0, limit |-> 0, maxPages |-> 0,
             page |-> 0, results |-> <<>>, raw |-> 0, valid |-> <<>>,
             returned |-> <<>>, lastPage |-> 0]
SearchIdle == sw = NoSearch

PartsIdle ==
    /\ CacheIdle /\ RotIdle /\ SideIdle /\ TreeIdle /\ SearchIdle
    /\ favDuring = FALSE

Init == SysInit /\ pin = NoInput /\ pout = NoInput /\ PartsIdle

\* ------------------------------------------------------------------------
\* syncNow (index.ts:154-247)
\* ------------------------------------------------------------------------
\* lines 163-182: the guard is taken and the body runs up to the first
\* await of searchWallpapers
StartRun ==
    /\ syncRunning' = TRUE
    /\ run' = [run EXCEPT ![NewSlot].pc = "search"]
    /\ budget' = [budget EXCEPT !.runs = @ + 1]
    /\ lastReturn' = "none"

\* lines 155-162: return false
SkipRun ==
    /\ lastReturn' = "skipped"
    /\ UNCHANGED <<syncRunning, run, budget>>

\* one call of syncNow, seen from its caller
SyncNowCall(hasContext) ==
    IF SyncGuard(hasContext)
    THEN FreeSlots # {} /\ budget.runs < MaxRuns /\ StartRun
    ELSE SkipRun

\* finally (lines 242-245) behind either return: the guard is released and
\* scheduleNext (lines 249-272) runs on the catalog `cat` now on disk
RunEnd(p, outcome, cat) ==
    /\ syncRunning' = FALSE
    /\ timer' = scheduleNextTimer
    /\ pendingTimers' = scheduleNextPending
    /\ catalog' = scheduleNextCatalog(cat)
    /\ run' = [run EXCEPT ![p] = IdleRun]
    /\ lastRun' = outcome
    /\ lastReturn' = outcome
    /\ UNCHANGED budget

\* plausible slip: the catch block does not start from the catalog on disk
failedCatalogFromEmpty(cat, message) == [EmptyCatalog EXCEPT !.lastError = message]

\* lines 233-237: {...catalog, lastError: err.message}
failedCatalog(cat, message) == [cat EXCEPT !.lastError = message]

\* catch (lines 231-241) and finally
RunFails(p, message) ==
    /\ RunEnd(p, "failed", failedCatalog(catalog, message))
    /\ UNCHANGED <<ctx, enabled, mode, mapping, files, current, backgrounds,
                   now, initPc>>

\* lines 196-222: everything between the end of the download loop and the
\* first await inside applyCatalogToBackgrounds
Commit(p, fresh, outcomes, files1) ==
    LET merged == mergeFeed(catalog, fresh)
        pr     == pruneCatalog(merged, cacheMax)
        cat    == [pr.catalog EXCEPT !.lastSyncAt = now,
                                     !.lastError = clearedError(pr.catalog)]
        source == IF mode = "favorites" THEN cat.favorites ELSE cat.feed
        globs  == [k \in DOMAIN source |-> source[k].path]
    IN  /\ catalog' = cat
        /\ files' = files1 \ PathsOf(pr.removed)
        /\ run' = [run EXCEPT ![p] =
                      [@ EXCEPT !.pc = "apply", !.fresh = fresh,
                                !.outcomes = outcomes, !.syncAt = now,
                                !.globs = globs,
                                !.k = 1, !.mapped = pickFromPool(globs, UIs[1])]]
        /\ UNCHANGED <<ctx, enabled, mode, mapping, syncRunning, timer, pendingTimers, current,
                       backgrounds, now, initPc, lastReturn, lastRun, budget>>

\* lines 190-195: toCachedImage has returned for target[i]
Completed(p, ok, files1) ==
    LET r         == run[p]
        id        == r.target[r.i]
        fresh1    == IF ok THEN Append(r.fresh, Item(id, CachePath(id), now))
                     ELSE r.fresh
        outcomes1 == Append(r.outcomes, ok)
    IN  IF r.i < Len(r.target)
        THEN /\ run' = [run EXCEPT ![p] =
                           [@ EXCEPT !.pc = "fetch", !.i = r.i + 1,
                                     !.fresh = fresh1, !.outcomes = outcomes1]]
             /\ files' = files1
             /\ UNCHANGED <<ctx, enabled, mode, mapping, syncRunning, timer, pendingTimers,
                            catalog, current, backgrounds, now, initPc,
                            lastReturn, lastRun, budget>>
        ELSE Commit(p, fresh1, outcomes1, files1)

\* ------------------------------------------------------------------------
\* Actions of the sync system
\* ------------------------------------------------------------------------
\* the clock advances
Tick ==
    /\ now < MaxTime
    /\ now' = now + 1
    /\ UNCHANGED <<ctx, enabled, mode, mapping, syncRunning, timer, pendingTimers, catalog,
                   files, current, backgrounds, run, initPc, lastReturn, lastRun,
                   budget>>

\* menu "Enable / Disable Wallhaven Sync" (services/wallpaper.ts:163-170)
ToggleEnabled ==
    /\ budget.toggles < MaxToggles
    /\ enabled' = ~enabled
    /\ budget' = [budget EXCEPT !.toggles = @ + 1]
    /\ UNCHANGED <<ctx, mode, mapping, syncRunning, timer, pendingTimers, catalog, files,
                   current, backgrounds, now, run, initPc, lastReturn, lastRun>>

\* menu "Sync Now" (services/wallpaper.ts:172-177): syncNow(true)
ManualSync ==
    /\ SyncNowCall(ctx)
    /\ UNCHANGED <<ctx, enabled, mode, mapping, timer, pendingTimers, catalog, files, current,
                   backgrounds, now, initPc, lastRun>>

\* the timer armed by scheduleNext fires (index.ts:269-271): syncNow(false)
TimerFires ==
    /\ timer.state = "armed"
    /\ now >= timer.due
    /\ pendingTimers > 0
    /\ timer' = [state |-> "fired", due |-> 0]
    /\ pendingTimers' = pendingTimers - 1
    /\ SyncNowCall(ctx)
    /\ UNCHANGED <<ctx, enabled, mode, mapping, catalog, files, current,
                   backgrounds, now, initPc, lastRun>>

\* searchWallpapers resolves with the candidates (index.ts:182-190)
SearchOk(p, cands) ==
    /\ run[p].pc = "search"
    /\ IF cands = <<>>
       THEN Commit(p, <<>>, <<>>, files)
       ELSE /\ run' = [run EXCEPT ![p] =
                          [@ EXCEPT !.pc = "fetch", !.target = cands, !.i = 1]]
            /\ UNCHANGED <<ctx, enabled, mode, mapping, syncRunning, timer, pendingTimers,
                           catalog, files, current, backgrounds, now, initPc,
                           lastReturn, lastRun, budget>>

\* searchWallpapers rejects (client.ts callSearch, types.ts:144-152)
SearchFails(p) ==
    /\ run[p].pc = "search"
    /\ RunFails(p, "search")

\* downloadImage: fetch(url) resolved with an image response
\* (types.ts:221-236); an existing file ends the download here
DownloadFetched(p) ==
    /\ run[p].pc = "fetch"
    /\ IF CachePath(run[p].target[run[p].i]) \in files
       THEN Completed(p, TRUE, files)
       ELSE /\ run' = [run EXCEPT ![p].pc = "body"]
            /\ UNCHANGED <<ctx, enabled, mode, mapping, syncRunning, timer, pendingTimers,
                           catalog, files, current, backgrounds, now, initPc,
                           lastReturn, lastRun, budget>>

\* downloadImage: the body arrived and is written (types.ts:237-243)
DownloadStored(p) ==
    /\ run[p].pc = "body"
    /\ Completed(p, TRUE, files \cup {CachePath(run[p].target[run[p].i])})

\* plausible slip: a failed download is not caught and ends the run
DownloadFailsAborting(p) ==
    /\ run[p].pc \in {"fetch", "body"}
    /\ RunFails(p, "download")

\* downloadImage throws, toCachedImage catches and returns null
\* (index.ts:120-127)
DownloadFails(p) ==
    /\ run[p].pc \in {"fetch", "body"}
    /\ Completed(p, FALSE, files)

\* applyCatalogToBackgrounds: update("<ui>Backgrounds") resolved
\* (index.ts:93-101), and after the last surface lines 223-230 and finally
ApplyStep(p) ==
    /\ run[p].pc = "apply"
    /\ LET r == run[p] ui == UIs[r.k] IN
       /\ backgrounds' = [backgrounds EXCEPT ![ui] = r.mapped]
       /\ current' = [current EXCEPT ![ui] = First(r.mapped)]
       /\ IF r.k < Len(UIs)
          THEN /\ run' = [run EXCEPT ![p] =
                             [@ EXCEPT !.k = r.k + 1,
                                       !.mapped = pickFromPool(r.globs, UIs[r.k + 1])]]
               /\ UNCHANGED <<syncRunning, timer, pendingTimers, catalog, lastReturn, lastRun,
                              budget>>
          ELSE RunEnd(p, "ok", catalog)
    /\ UNCHANGED <<ctx, enabled, mode, mapping, files, now, initPc>>

\* applyCatalogToBackgrounds: update(...) rejects, caught at index.ts:231
ApplyFails(p) ==
    /\ run[p].pc = "apply"
    /\ RunFails(p, "apply")

\* likeCurrent (index.ts:274-303)
LikeCurrent(ui) ==
    /\ ctx
    /\ enabled
    /\ LET cur == IF current[ui] # None THEN current[ui]
                  ELSE First(backgrounds[ui])
           inFeed == {k \in DOMAIN catalog.feed : catalog.feed[k].path = cur}
           inFav  == {k \in DOMAIN catalog.favorites :
                         catalog.favorites[k].path = cur}
           first(S) == CHOOSE k \in S : \A j \in S : k <= j
           item == IF inFeed # {} THEN catalog.feed[first(inFeed)]
                   ELSE IF inFav # {} THEN catalog.favorites[first(inFav)]
                   ELSE Item(ManualBase + now, cur, now)
       IN  /\ cur # None
           /\ catalog' = addFavorite(catalog, item)
    /\ UNCHANGED <<ctx, enabled, mode, mapping, syncRunning, timer, pendingTimers, files,
                   current, backgrounds, now, run, initPc, lastReturn, lastRun,
                   budget>>

\* unlike (index.ts:328-330), reached from openFavoritesPicker with the id
\* of a favourite
Unlike(id) ==
    /\ ctx
    /\ catalog' = removeFavorite(catalog, id)
    /\ UNCHANGED <<ctx, enabled, mode, mapping, syncRunning, timer, pendingTimers, files,
                   current, backgrounds, now, run, initPc, lastReturn, lastRun,
                   budget>>

\* initializeWallhaven from line 344 on
InitRest(hasContext) ==
    IF ~enabled
    THEN UNCHANGED <<syncRunning, run, lastReturn, timer, pendingTimers, catalog, budget>>
    ELSE IF shouldCatchUpNow(now, catalog.lastSyncAt)
         THEN SyncNowCall(hasContext) /\ UNCHANGED <<timer, pendingTimers, catalog>>
         ELSE /\ timer' = scheduleNextTimer
              /\ pendingTimers' = scheduleNextPending
              /\ catalog' = scheduleNextCatalog(catalog)
              /\ UNCHANGED <<syncRunning, run, lastReturn, budget>>

\* initializeWallhaven (index.ts:340-343) up to the quick pick of
\* ensureMappingPrompt, or to the end when no prompt is needed
InitBegin ==
    /\ initPc = "new"
    /\ ctx' = TRUE
    /\ IF enabled /\ mapping = "unset"
       THEN /\ initPc' = "prompt"
            /\ UNCHANGED <<syncRunning, run, lastReturn, timer, pendingTimers, catalog,
                           budget>>
       ELSE /\ initPc' = "done"
            /\ InitRest(TRUE)
    /\ UNCHANGED <<enabled, mode, mapping, files, current, backgrounds, now,
                   lastRun>>

\* ensureMappingPrompt: the quick pick returned (index.ts:139-151); a
\* dismissed pick stores "shared"
InitPicked(pick) ==
    /\ initPc = "prompt"
    /\ initPc' = "saving"
    /\ mapping' = pick
    /\ UNCHANGED <<ctx, enabled, mode, syncRunning, timer, pendingTimers, catalog, files,
                   current, backgrounds, now, run, lastReturn, lastRun, budget>>

\* ensureMappingPrompt: update("wallhaven.mapping") resolved, then
\* initializeWallhaven continues at line 344
InitSaved ==
    /\ initPc = "saving"
    /\ initPc' = "done"
    /\ InitRest(ctx)
    /\ UNCHANGED <<ctx, enabled, mode, mapping, files, current, backgrounds,
                   now, lastRun>>

\* a favourite operation is recorded if a sync run is in flight
FavoriteNoted ==
    /\ favDuring' = (favDuring \/ syncRunning)
    /\ UNCHANGED <<pin, pout, cacheVars, rotVars, sideVars, treeVars, sw>>

Candidates ==
    UNION {[1 .. n -> ApiIds] : n \in 0 .. Min2(fetchPerDay, 100)}

Next ==
    \/ Tick /\ UNCHANGED pureVars
    \/ ToggleEnabled /\ UNCHANGED pureVars
    \/ ManualSync /\ UNCHANGED pureVars
    \/ TimerFires /\ UNCHANGED pureVars
    \/ \E p \in Slots : \E cands \in Candidates :
          SearchOk(p, cands) /\ UNCHANGED pureVars
    \/ \E p \in Slots : SearchFails(p) /\ UNCHANGED pureVars
    \/ \E p \in Slots : DownloadFetched(p) /\ UNCHANGED pureVars
    \/ \E p \in Slots : DownloadStored(p) /\ UNCHANGED pureVars
    \/ \E p \in Slots : DownloadFails(p) /\ UNCHANGED pureVars
    \/ \E p \in Slots : ApplyStep(p) /\ UNCHANGED pureVars
    \/ \E p \in Slots : ApplyFails(p) /\ UNCHANGED pureVars
    \/ LikeCurrent("window") /\ FavoriteNoted
    \/ \E id \in IdsOf(catalog.favorites) : Unlike(id) /\ FavoriteNoted
    \/ InitBegin /\ UNCHANGED pureVars
    \/ \E pick \in {"shared", "perSurface"} : InitPicked(pick) /\ UNCHANGED pureVars
    \/ InitSaved /\ UNCHANGED pureVars

Spec == Init /\ [][Next]_vars

\* ------------------------------------------------------------------------
\* The sync system across restarts of the extension host.  What is kept in
\* the module state of index.ts (index.ts:28-31) starts afresh and the
\* syncNow bodies in flight are gone with the process; the settings, the
\* catalog file and the cache directory stay.
\* ------------------------------------------------------------------------
HostRestart ==
    /\ initPc = "done"
    /\ ctx' = FALSE
    /\ syncRunning' = FALSE
    /\ timer' = NoTimer
    /\ pendingTimers' = 0
    /\ current' = [ui \in UISet |-> None]
    /\ run' = [p \in Slots |-> IdleRun]
    /\ initPc' = "new"
    /\ lastReturn' = "none"
    /\ UNCHANGED <<enabled, mode, mapping, catalog, files, backgrounds, now,
                   lastRun, budget>>

CatchUpNext ==
    \/ Tick /\ UNCHANGED pureVars
    \/ ToggleEnabled /\ UNCHANGED pureVars
    \/ ManualSync /\ UNCHANGED pureVars
    \/ TimerFires /\ UNCHANGED pureVars
    \/ \E p \in Slots : \E cands \in Candidates :
          SearchOk(p, cands) /\ UNCHANGED pureVars
    \/ \E p \in Slots : SearchFails(p) /\ UNCHANGED pureVars
    \/ \E p \in Slots : DownloadFetched(p) /\ UNCHANGED pureVars
    \/ \E p \in Slots : DownloadStored(p) /\ UNCHANGED pureVars
    \/ \E p \in Slots : DownloadFails(p) /\ UNCHANGED pureVars
    \/ \E p \in Slots : ApplyStep(p) /\ UNCHANGED pureVars
    \/ \E p \in Slots : ApplyFails(p) /\ UNCHANGED pureVars
    \/ InitBegin /\ UNCHANGED pureVars
    \/ \E pick \in {"shared", "perSurface"} :
          InitPicked(pick) /\ UNCHANGED pureVars
    \/ InitSaved /\ UNCHANGED pureVars
    \/ HostRestart /\ UNCHANGED pureVars

CatchUpSpec == Init /\ [][CatchUpNext]_vars

\* ------------------------------------------------------------------------
\* The sync system from the state a first successful sync leaves behind:
\* the extension was initialized with the sync disabled, the sync was then
\* enabled, and a manual sync fetched wallpaper 1 and applied it to every
\* surface.  Further runs and favourite operations follow from there.
\* ------------------------------------------------------------------------
FirstItem == Item(1, CachePath(1), 1)

AfterFirstSync ==
    /\ ctx = TRUE
    /\ enabled = TRUE
    /\ mode = "daily"
    /\ mapping = "unset"
    /\ syncRunning = FALSE
    /\ timer = [state |-> "armed", due |-> getNextRunAt(1)]
    /\ pendingTimers = 1
    /\ catalog = [EmptyCatalog EXCEPT !.feed = <<FirstItem>>,
                                      !.lastSyncAt = 1,
                                      !.nextScheduledAt = getNextRunAt(1)]
    /\ files = {CachePath(1)}
    /\ current = [ui \in UISet |-> CachePath(1)]
    /\ backgrounds = [ui \in UISet |-> <<CachePath(1)>>]
    /\ now = 1
    /\ run = [p \in Slots |-> IdleRun]
    /\ initPc = "done"
    /\ lastReturn = "ok"
    /\ lastRun = "ok"
    /\ budget = [runs |-> 0, toggles |-> 0]
    /\ pin = NoInput /\ pout = NoInput /\ PartsIdle

AfterSyncNext ==
    \/ Tick /\ UNCHANGED pureVars
    \/ ToggleEnabled /\ UNCHANGED pureVars
    \/ ManualSync /\ UNCHANGED pureVars
    \/ TimerFires /\ UNCHANGED pureVars
    \/ \E p \in Slots : \E cands \in Candidates :
          SearchOk(p, cands) /\ UNCHANGED pureVars
    \/ \E p \in Slots : SearchFails(p) /\ UNCHANGED pureVars
    \/ \E p \in Slots : DownloadFetched(p) /\ UNCHANGED pureVars
    \/ \E p \in Slots : DownloadStored(p) /\ UNCHANGED pureVars
    \/ \E p \in Slots : DownloadFails(p) /\ UNCHANGED pureVars
    \/ \E p \in Slots : ApplyStep(p) /\ UNCHANGED pureVars
    \/ \E p \in Slots : ApplyFails(p) /\ UNCHANGED pureVars
    \/ LikeCurrent("window") /\ FavoriteNoted
    \/ \E id \in IdsOf(catalog.favorites) : Unlike(id) /\ FavoriteNoted

AfterSyncSpec == AfterFirstSync /\ [][AfterSyncNext]_vars

\* ------------------------------------------------------------------------
\* The catalog functions on their own: merge and prune applied to every
\* small catalog.  Entries already in the catalog carry fetchedAt 1, fresh
\* entries fetchedAt 2, so that the two can be told apart in a result.
\* ------------------------------------------------------------------------
SeqsUpTo(S, n) == UNION {[1 .. m -> S] : m \in 0 .. n}

UniqueById(items) ==
    \A j, k \in DOMAIN items : items[j].id = items[k].id => j = k

OldItems == {Item(id, CachePath(id), 1) : id \in 1 .. PureIds}
FreshItems == {Item(id, CachePath(id), 2) : id \in 1 .. PureIds}

\* a feed and favourites as the program keeps them (unique by id), a fresh
\* set as a search may deliver it (the same id may come twice), and a
\* maximum of any size from 0 (pruneCatalog clamps it at 1)
PureInputs ==
    {[op |-> "input",
      catalog |-> [feed |-> feed, favorites |-> favs, lastSyncAt |-> 1,
                   nextScheduledAt |-> 2, lastError |-> "search"],
      fresh |-> fresh,
      maxItems |-> maxItems] :
        feed \in {f \in SeqsUpTo(OldItems, MaxLen) : UniqueById(f)},
        favs \in {f \in SeqsUpTo(OldItems, MaxLen - 1) : UniqueById(f)},
        fresh \in SeqsUpTo(FreshItems, MaxLen - 1),
        maxItems \in 0 .. MaxLen}

CatalogInit == SysInit /\ pin \in PureInputs /\ pout = NoInput /\ PartsIdle

\* mergeFeed(catalog, fresh)
ApplyMerge ==
    /\ pout = NoInput
    /\ pout' = [op |-> "merge", catalog |-> mergeFeed(pin.catalog, pin.fresh)]
    /\ UNCHANGED <<pin, sysVars, partVars>>

\* mergeFeed applied twice with the same fresh set
ApplyMergeTwice ==
    /\ pout = NoInput
    /\ pout' = [op |-> "mergeTwice",
                once |-> mergeFeed(pin.catalog, pin.fresh),
                twice |-> mergeFeed(mergeFeed(pin.catalog, pin.fresh), pin.fresh)]
    /\ UNCHANGED <<pin, sysVars, partVars>>

\* pruneCatalog(catalog, maxItems)
ApplyPrune ==
    /\ pout = NoInput
    /\ pout' = [op |-> "prune", result |-> pruneCatalog(pin.catalog, pin.maxItems)]
    /\ UNCHANGED <<pin, sysVars, partVars>>

\* mergeFeed and then pruneCatalog, as syncNow calls them
ApplyMergePrune ==
    /\ pout = NoInput
    /\ pout' = [op |-> "mergePrune",
                merged |-> mergeFeed(pin.catalog, pin.fresh).feed,
                result |-> mergedAndPruned(pin.catalog, pin.fresh,
                                           pin.maxItems)]
    /\ UNCHANGED <<pin, sysVars, partVars>>

\* addFavorite(catalog, item), and the same call on the catalog with its
\* feed emptied
ApplyAddFavorite ==
    /\ pout = NoInput
    /\ \E item \in OldItems \cup FreshItems :
           pout' = [op |-> "addFavorite", item |-> item,
                    catalog |-> addFavorite(pin.catalog, item),
                    noFeed |-> addFavorite([pin.catalog EXCEPT !.feed = <<>>], item)]
    /\ UNCHANGED <<pin, sysVars, partVars>>

\* removeFavorite(catalog, id), and the same call on the catalog with its
\* feed emptied
ApplyRemoveFavorite ==
    /\ pout = NoInput
    /\ \E id \in 1 .. PureIds :
           pout' = [op |-> "removeFavorite", id |-> id,
                    catalog |-> removeFavorite(pin.catalog, id),
                    noFeed |-> removeFavorite([pin.catalog EXCEPT !.feed = <<>>], id)]
    /\ UNCHANGED <<pin, sysVars, partVars>>

CatalogNext ==
    \/ ApplyMerge
    \/ ApplyMergeTwice
    \/ ApplyPrune
    \/ ApplyMergePrune
    \/ ApplyAddFavorite
    \/ ApplyRemoveFavorite

CatalogSpec == CatalogInit /\ [][CatalogNext]_vars

\* ------------------------------------------------------------------------
\* The mapping of the pool to the surfaces on its own (index.ts:70-102):
\* applyCatalogToBackgrounds called by setMode and by syncNow on a catalog
\* drawn as an input, under each mapping the quick pick can store.
\* ------------------------------------------------------------------------
notMap == <<ctx, enabled, syncRunning, timer, pendingTimers, catalog, files,
            now, run, initPc, lastReturn, lastRun, budget, pin, partVars>>

\* source.map(item => item.localPath...) (index.ts:90-91)
globsOf(cat) ==
    LET source == IF mode = "favorites" THEN cat.favorites ELSE cat.feed
    IN  [k \in DOMAIN source |-> source[k].path]

\* ensureMappingPrompt stores the preference (index.ts:139-151)
MapPicked(pick) ==
    /\ pout = NoInput
    /\ mapping = "unset"
    /\ mapping' = pick
    /\ UNCHANGED <<mode, backgrounds, current, pout>>

\* setMode up to the await of update("wallhaven.mode") (index.ts:334-335)
SetMode(m) ==
    /\ pout = NoInput
    /\ mode' = m
    /\ pout' = [op |-> "mode"]
    /\ UNCHANGED <<mapping, backgrounds, current>>

\* applyCatalogToBackgrounds is called, by setMode once the mode is saved
\* (index.ts:336) or by syncNow (index.ts:222), and awaits the update of
\* the first surface (index.ts:90-95)
MapBegin ==
    /\ pout.op \in {"none", "mode"}
    /\ pout' = [op |-> "apply", globs |-> globsOf(pin.catalog), k |-> 1,
                mapped |-> pickFromPool(globsOf(pin.catalog), UIs[1])]
    /\ UNCHANGED <<mode, mapping, backgrounds, current>>

\* update("<ui>Backgrounds") resolved (index.ts:93-97)
MapStep ==
    /\ pout.op = "apply"
    /\ backgrounds' = [backgrounds EXCEPT ![UIs[pout.k]] = pout.mapped]
    /\ current' = [current EXCEPT ![UIs[pout.k]] = First(pout.mapped)]
    /\ pout' = IF pout.k < Len(UIs)
               THEN [pout EXCEPT !.k = @ + 1,
                                 !.mapped = pickFromPool(pout.globs,
                                                         UIs[pout.k + 1])]
               ELSE [op |-> "applied", globs |-> pout.globs]
    /\ UNCHANGED <<mode, mapping>>

MapNext ==
    \/ \E pick \in {"shared", "perSurface"} :
          MapPicked(pick) /\ UNCHANGED notMap
    \/ \E m \in {"daily", "favorites"} : SetMode(m) /\ UNCHANGED notMap
    \/ MapBegin /\ UNCHANGED notMap
    \/ MapStep /\ UNCHANGED notMap

MappingSpec == CatalogInit /\ [][MapNext]_vars

\* ------------------------------------------------------------------------
\* The time utility on its own (scheduler.ts, types.ts:267-303), on the
\* civil calendar.  A Date is its time value, here in minutes since
\* 1970-01-01 00:00 local time; the local zone has no clock changes.  A
\* text is a sequence of characters.  Months count from 0 as in Date.
\* ------------------------------------------------------------------------
Digits == <<"0", "1", "2", "3", "4", "5", "6", "7", "8", "9">>
DigitSet == {Digits[k] : k \in 1 .. 10}
\* +"<digit>"
digitValue(c) == (CHOOSE k \in 1 .. 10 : Digits[k] = c) - 1
\* +"<digits>"
toNumber(text) ==
    IF Len(text) = 1 THEN digitValue(text[1])
    ELSE 10 * digitValue(text[1]) + digitValue(text[2])

\* String.prototype.trim, the blank being the white space of the model
trimStart(text) ==
    LET blanks == {k \in 0 .. Len(text) : \A j \in 1 .. k : text[j] = " "}
    IN  SubSeq(text, MaxOf(blanks) + 1, Len(text))
trimEnd(text) ==
    LET blanks == {k \in 0 .. Len(text) :
                      \A j \in Len(text) - k + 1 .. Len(text) : text[j] = " "}
    IN  SubSeq(text, 1, Len(text) - MaxOf(blanks))
trim(text) == trimEnd(trimStart(text))

\* the group ([01]?\d|2[0-3])
matchesHour(text) ==
    \/ Len(text) = 1 /\ text[1] \in DigitSet
    \/ Len(text) = 2 /\ text[1] \in {"0", "1"} /\ text[2] \in DigitSet
    \/ Len(text) = 2 /\ text[1] = "2" /\ text[2] \in {"0", "1", "2", "3"}
\* the group ([0-5]\d)
matchesMinute(text) ==
    /\ Len(text) = 2
    /\ text[1] \in {"0", "1", "2", "3", "4", "5"}
    /\ text[2] \in DigitSet
\* the positions of the colon at which /^([01]?\d|2[0-3]):([0-5]\d)$/
\* matches the whole text
matchColons(text) ==
    {k \in 1 .. Len(text) :
        /\ text[k] = ":"
        /\ matchesHour(SubSeq(text, 1, k - 1))
        /\ matchesMinute(SubSeq(text, k + 1, Len(text)))}

\* null
NullTime == [hour |-> -1, minute |-> -1]

parseRefreshTimeNoTrim(value) ==
    LET colons == matchColons(value)
    IN  IF colons = {} THEN NullTime
        ELSE LET k == CHOOSE c \in colons : TRUE
             IN  [hour |-> toNumber(SubSeq(value, 1, k - 1)),
                  minute |-> toNumber(SubSeq(value, k + 1, Len(value)))]

\* parseRefreshTime (types.ts:267-276)
parseRefreshTime(value) ==
    LET text   == trim(value)
        colons == matchColons(text)
    IN  IF colons = {} THEN NullTime
        ELSE LET k == CHOOSE c \in colons : TRUE
             IN  [hour |-> toNumber(SubSeq(text, 1, k - 1)),
                  minute |-> toNumber(SubSeq(text, k + 1, Len(text)))]

\* parseRefreshTime(refreshTime) ?? {hour: 9, minute: 0}
\* (types.ts:282, 296)
parsedOrDefault(refreshTime) ==
    LET parsed == parseRefreshTime(refreshTime)
    IN  IF parsed = NullTime THEN [hour |-> 9, minute |-> 0] ELSE parsed

\* the Gregorian calendar as Date keeps it
MinutesPerDay == 1440
isLeapYear(year) ==
    (year % 4 = 0 /\ year % 100 # 0) \/ year % 400 = 0
daysInMonth(year, month) ==
    IF month = 1 THEN (IF isLeapYear(year) THEN 29 ELSE 28)
    ELSE IF month \in {3, 5, 8, 10} THEN 30 ELSE 31
\* days from 1970-01-01 to the first day of the year
daysBeforeYear(year) ==
    365 * (year - 1970) + (year - 1969) \div 4 - (year - 1901) \div 100
    + (year - 1601) \div 400
RECURSIVE daysBeforeMonth(_, _)
daysBeforeMonth(year, month) ==
    IF month = 0 THEN 0
    ELSE daysBeforeMonth(year, month - 1) + daysInMonth(year, month - 1)

\* new Date(year, month, date, hours, minutes, 0, 0) for a month within the
\* year: a date beyond the end of the month runs on into the next months
newDate(year, month, date, hours, minutes) ==
    (daysBeforeYear(year) + daysBeforeMonth(year, month) + date - 1)
        * MinutesPerDay + hours * 60 + minutes

\* the years that the dates of the model fall in
Years == FirstYear - 1 .. FirstYear + NumYears + 1
dayNumber(at) == at \div MinutesPerDay
getFullYear(at) ==
    CHOOSE year \in Years :
        /\ daysBeforeYear(year) <= dayNumber(at)
        /\ dayNumber(at) < daysBeforeYear(year + 1)
getMonth(at) ==
    LET year == getFullYear(at)
        rest == dayNumber(at) - daysBeforeYear(year)
    IN  CHOOSE month \in 0 .. 11 :
            /\ daysBeforeMonth(year, month) <= rest
            /\ rest < daysBeforeMonth(year, month) + daysInMonth(year, month)
getDate(at) ==
    LET year == getFullYear(at)
    IN  dayNumber(at) - daysBeforeYear(year)
        - daysBeforeMonth(year, getMonth(at)) + 1
getHours(at) == (at % MinutesPerDay) \div 60
getMinutes(at) == at % 60

\* withLocalTime (types.ts:278-279)
withLocalTimeDate(at, hour, minute) ==
    newDate(getFullYear(at), getMonth(at), getDate(at), hour, minute)

\* Date.prototype.setDate(date)
setDate(at, date) ==
    newDate(getFullYear(at), getMonth(at), date, getHours(at),
            getMinutes(at))

setDateClamped(at, date) ==
    LET year == getFullYear(at)
        month == getMonth(at)
    IN  newDate(year, month, Min2(date, daysInMonth(year, month)),
                getHours(at), getMinutes(at))

getNextRunAtDateClamped(at, refreshTime) ==
    LET parsed == parsedOrDefault(refreshTime)
        todayAt == withLocalTimeDate(at, parsed.hour, parsed.minute)
    IN  IF at < todayAt THEN todayAt
        ELSE setDateClamped(todayAt, getDate(todayAt) + 1)

\* getNextRunAt (types.ts:281-292)
getNextRunAtDate(at, refreshTime) ==
    LET parsed == parsedOrDefault(refreshTime)
        todayAt == withLocalTimeDate(at, parsed.hour, parsed.minute)
    IN  IF at < todayAt THEN todayAt
        ELSE setDate(todayAt, getDate(todayAt) + 1)

shouldCatchUpNowDateLax(at, refreshTime, lastSyncAt) ==
    LET parsed == parsedOrDefault(refreshTime)
        slot == withLocalTimeDate(at, parsed.hour, parsed.minute)
    IN  IF at < slot THEN FALSE
        ELSE lastSyncAt = None \/ lastSyncAt <= slot

\* shouldCatchUpNow (types.ts:294-303)
shouldCatchUpNowDate(at, refreshTime, lastSyncAt) ==
    LET parsed == parsedOrDefault(refreshTime)
        slot == withLocalTimeDate(at, parsed.hour, parsed.minute)
    IN  IF at < slot THEN FALSE
        ELSE lastSyncAt = None \/ lastSyncAt < slot

\* the texts handed to parseRefreshTime: every text of up to MaxText
\* characters out of four digits, the colon and the blank
Chars == {"0", "2", "4", "6", ":", " "}
Texts == SeqsUpTo(Chars, MaxText)
\* the refresh times handed to getNextRunAt and shouldCatchUpNow with the
\* hour and minute they stand for; the last one is no refresh time and
\* stands for 09:00 (types.ts:282, 296)
Triggers ==
    {[text |-> <<"0", ":", "0", "0">>, hour |-> 0, minute |-> 0],
     [text |-> <<"2", "0", ":", "0", "6">>, hour |-> 20, minute |-> 6],
     [text |-> <<"2", "4", ":", "0", "0">>, hour |-> 9, minute |-> 0]}
ClockHours == {0, 9, 20, 23}
ClockMinutes == {0, 6, 59}
\* the calendar days of NumYears years from FirstYear on
CalendarDays ==
    {[year |-> y, month |-> m, date |-> d] :
        y \in FirstYear .. FirstYear + NumYears - 1, m \in 0 .. 11,
        d \in 1 .. 31}
Days == {day \in CalendarDays : day.date <= daysInMonth(day.year, day.month)}
December == {day \in Days : day.year = FirstYear /\ day.month = 11}

\* the inputs of parseRefreshTime: a text
TextInputs == {[op |-> "text", text |-> text] : text \in Texts}
\* the inputs of getNextRunAt: a Date and a refresh time
DateInputs ==
    {[op |-> "date", day |-> day, hours |-> h, minutes |-> mi,
      trigger |-> trigger] :
        day \in Days, h \in ClockHours, mi \in ClockMinutes,
        trigger \in Triggers}
\* the inputs of shouldCatchUpNow: a Date, a refresh time and a lastSyncAt
\* that is absent or an instant of the same day or of the day before
LastSyncs ==
    {[absent |-> TRUE, daysAgo |-> 0, hours |-> 0, minutes |-> 0]}
    \cup {[absent |-> FALSE, daysAgo |-> ago, hours |-> h, minutes |-> mi] :
             ago \in {0, 1}, h \in ClockHours, mi \in ClockMinutes}
SyncInputs ==
    {[op |-> "sync", day |-> day, hours |-> h, minutes |-> mi,
      trigger |-> trigger, last |-> last] :
        day \in December, h \in ClockHours, mi \in ClockMinutes,
        trigger \in Triggers, last \in LastSyncs}

\* the Date and the lastSyncAt argument that an input stands for
dateOf(input) ==
    newDate(input.day.year, input.day.month, input.day.date, input.hours,
            input.minutes)
lastSyncAtOf(input) ==
    IF input.last.absent THEN None
    ELSE newDate(input.day.year, input.day.month,
                 input.day.date - input.last.daysAgo, input.last.hours,
                 input.last.minutes)

TimeInit ==
    /\ SysInit
    /\ pin \in TextInputs \/ pin \in DateInputs \/ pin \in SyncInputs
    /\ pout = NoInput
    /\ PartsIdle

ApplyParseRefreshTime ==
    /\ pin.op = "text"
    /\ pout = NoInput
    /\ pout' = [op |-> "parseRefreshTime",
                result |-> parseRefreshTime(pin.text)]
    /\ UNCHANGED <<pin, sysVars, partVars>>

ApplyGetNextRunAt ==
    /\ pin.op = "date"
    /\ pout = NoInput
    /\ pout' = [op |-> "getNextRunAt",
                result |-> getNextRunAtDate(dateOf(pin), pin.trigger.text)]
    /\ UNCHANGED <<pin, sysVars, partVars>>

ApplyShouldCatchUpNow ==
    /\ pin.op = "sync"
    /\ pout = NoInput
    /\ pout' = [op |-> "shouldCatchUpNow",
                result |-> shouldCatchUpNowDate(dateOf(pin), pin.trigger.text,
                                                lastSyncAtOf(pin))]
    /\ UNCHANGED <<pin, sysVars, partVars>>

TimeNext ==
    \/ ApplyParseRefreshTime
    \/ ApplyGetNextRunAt
    \/ ApplyShouldCatchUpNow

TimeSpec == TimeInit /\ [][TimeNext]_vars

\* ------------------------------------------------------------------------
\* The search client on its own (client.ts, types.ts:155-185).  The raw
\* items that the endpoint delivers are numbered in the order of delivery;
\* a page has any number of them, its first one may lack what
\* normalizeWallpaper asks for (types.ts:106-109), and its meta names any
\* last page or none.
\* ------------------------------------------------------------------------
\* const perPage = 24 (types.ts:157)
PerPage == 24
\* values of options.limit
Limits == {-1, 0, 1, 2, 30, 101}
\* numbers of raw items on a page
PageSizes == {0, 2, 60}
\* values of payload.meta.last_page; None when the payload has none
LastPages == {None, 1, 99}

\* Math.ceil(a / b) for a > 0
Ceil(a, b) == (a + b - 1) \div b

\* Math.max(1, Math.min(100, options.limit || 20)) (types.ts:156)
searchLimit(optionsLimit) ==
    Max2(1, Min2(100, IF optionsLimit = 0 THEN 20 ELSE optionsLimit))

\* Math.min(10, Math.max(1, Math.ceil(limit / perPage) + 2)) (types.ts:158)
searchMaxPages(limit) == Min2(10, Max2(1, Ceil(limit, PerPage) + 2))

\* results.slice(0, limit)
sliceTo(results, limit) == SubSeq(results, 1, Min2(Len(results), limit))

\* searchWallpapers is called and awaits its first page (types.ts:155-162);
\* the loop is entered as maxPages and limit are at least 1
SearchCall(optionsLimit) ==
    /\ sw.pc = "idle"
    /\ sw' = [NoSearch EXCEPT !.pc = "page", !.options = optionsLimit,
                              !.limit = searchLimit(optionsLimit),
                              !.maxPages =
                                  searchMaxPages(searchLimit(optionsLimit)),
                              !.page = 1]

\* return results.slice(0, limit) (types.ts:183-184)
searchReturns(results, limit) == sliceTo(results, limit)

\* callSearch resolves with a page of `size` raw items (types.ts:162-180):
\* the normalized items are appended, and the loop goes on to the next
\* page or ends
SearchPage(size, firstInvalid, lastPageMeta) ==
    /\ sw.pc = "page"
    /\ LET rawItems   == [k \in 1 .. size |-> sw.raw + k]
           normalized == IF firstInvalid /\ size > 0
                         THEN SubSeq(rawItems, 2, size) ELSE rawItems
           results    == sw.results \o normalized
           lastPage   == IF lastPageMeta = None THEN sw.page
                         ELSE lastPageMeta
           goesOn     == /\ sw.page < lastPage
                         /\ sw.page + 1 <= sw.maxPages
                         /\ Len(results) < sw.limit
       IN  sw' = [sw EXCEPT
                    !.results = results,
                    !.raw = sw.raw + size,
                    !.valid = sw.valid \o normalized,
                    !.lastPage = lastPage,
                    !.page = IF goesOn THEN sw.page + 1 ELSE sw.page,
                    !.pc = IF goesOn THEN "page" ELSE "returned",
                    !.returned = IF goesOn THEN <<>>
                                 ELSE searchReturns(results, sw.limit)]

\* callSearch rejects (types.ts:147-150): searchWallpapers rejects
SearchRejects ==
    /\ sw.pc = "page"
    /\ sw' = [sw EXCEPT !.pc = "rejected"]

notSearch == <<sysVars, pin, pout, cacheVars, rotVars, sideVars, treeVars,
              favDuring>>

SearchStart == SysInit /\ pin = NoInput /\ pout = NoInput /\ PartsIdle

SearchNext ==
    \/ \E optionsLimit \in Limits :
         SearchCall(optionsLimit) /\ UNCHANGED notSearch
    \/ \E size \in PageSizes, firstInvalid \in BOOLEAN,
          lastPageMeta \in LastPages :
         SearchPage(size, firstInvalid, lastPageMeta) /\ UNCHANGED notSearch
    \/ SearchRejects /\ UNCHANGED notSearch

SearchSpec == SearchStart /\ [][SearchNext]_vars

\* ------------------------------------------------------------------------
\* The content cache on its own (cache.ts): downloadImage called for one
\* URL after the other, as the download loop of syncNow calls it.  URLs
\* with an odd number have a pathname that ends in ".png", the others have
\* no extension.
\* ------------------------------------------------------------------------
Urls == 1 .. NumUrls

\* extname(new URL(url).pathname).toLowerCase()
urlExt(url) == IF url % 2 = 1 THEN ".png" ELSE ""

\* the content-type header of a response: absent, or <<type, subtype>>
ContentTypes ==
    {<<>>, <<"image", "png">>, <<"image", "webp">>, <<"image", "jpeg">>,
     <<"text", "html">>}

toExt(url, contentType) ==
    IF urlExt(url) \in {".png", ".jpg", ".jpeg", ".webp", ".gif", ".bmp", ".svg"}
    THEN urlExt(url)
    ELSE IF contentType = <<>> THEN ".jpg"
    ELSE IF contentType[2] = "png" THEN ".png"
    ELSE IF contentType[2] = "webp" THEN ".webp"
    ELSE IF contentType[2] = "gif" THEN ".gif"
    ELSE IF contentType[2] = "bmp" THEN ".bmp"
    ELSE IF contentType[2] = "svg" THEN ".svg"
    ELSE ".jpg"

\* sha256 of the text, taken as free of collisions
hashText(value) == <<"sha256", value>>

\* `${dir}/${id}${ext}`
targetOf(url, contentType) == <<hashText(url), toExt(url, contentType)>>

\* the call ends: it threw (ok = FALSE, error names the cause) or returned
\* {id, localPath}
downloadImageEnds(ok, target, wrote, error) ==
    /\ dlog' = Append(dlog, [url |-> dl.url, ok |-> ok,
                             id |-> hashText(dl.url), localPath |-> target,
                             fetches |-> dl.fetches, wrote |-> wrote,
                             error |-> error])
    /\ dl' = [pc |-> "idle"]

\* downloadImage is called: fetch(url) is issued (types.ts:219-221)
downloadImageCall(url) ==
    /\ dl.pc = "idle"
    /\ Len(dlog) < MaxCalls
    /\ dl' = [pc |-> "fetch", url |-> url, target |-> <<>>, fetches |-> 1]
    /\ UNCHANGED <<disk, dlog>>

\* fetch resolved: status and content type are checked, the target path
\* is computed and looked up (types.ts:222-236, 240-243)
downloadImageResponse(ok, contentType) ==
    /\ dl.pc = "fetch"
    /\ IF ~ok
       THEN downloadImageEnds(FALSE, <<>>, FALSE, "status") /\ UNCHANGED disk
       ELSE IF contentType # <<>> /\ contentType[1] # "image"
       THEN downloadImageEnds(FALSE, <<>>, FALSE, "content type") /\ UNCHANGED disk
       ELSE LET target == targetOf(dl.url, contentType) IN
            IF target \in disk
            THEN downloadImageEnds(TRUE, target, FALSE, "") /\ UNCHANGED disk
            ELSE /\ dl' = [dl EXCEPT !.pc = "body", !.target = target]
                 /\ UNCHANGED <<disk, dlog>>

\* response.arrayBuffer() resolved: the file is written (types.ts:237-243)
downloadImageBody ==
    /\ dl.pc = "body"
    /\ disk' = disk \cup {dl.target}
    /\ downloadImageEnds(TRUE, dl.target, TRUE, "")

\* response.arrayBuffer() rejected (types.ts:237)
downloadImageBodyFails ==
    /\ dl.pc = "body"
    /\ downloadImageEnds(FALSE, <<>>, FALSE, "body")
    /\ UNCHANGED disk

notCache == <<sysVars, pin, pout, rotVars, sideVars, treeVars, sw,
             favDuring>>

CacheInit == SysInit /\ pin = NoInput /\ pout = NoInput /\ PartsIdle

CacheNext ==
    \/ \E url \in Urls : downloadImageCall(url) /\ UNCHANGED notCache
    \/ \E ok \in BOOLEAN, ct \in ContentTypes :
          downloadImageResponse(ok, ct) /\ UNCHANGED notCache
    \/ downloadImageBody /\ UNCHANGED notCache
    \/ downloadImageBodyFails /\ UNCHANGED notCache

CacheSpec == CacheInit /\ [][CacheNext]_vars

\* ------------------------------------------------------------------------
\* The daily rotation on its own: StateStore (state/store.ts), the
\* DailyRotationScheduler (services/rotation.ts) and the commands of
\* extension.ts that change the store or call schedule().  A collection is
\* "none" (no such collection), "empty" (no wallpapers) or "full"; the
\* active wallpaper is represented by the date it was applied at.  Memento
\* updates take effect at once, so an activation reads the store as the
\* last setter left it.
\* ------------------------------------------------------------------------
Colls == 1 .. NumColls
Mids == 1 .. NumMid

IdleFlow ==
    [pc |-> "idle", coll |-> None, startup |-> FALSE, hadPending |-> None,
     rotated |-> FALSE]

setActiveWallpaper(st, activeWallpaper) ==
    [st EXCEPT !.activeWallpaper = activeWallpaper]

setEnabledCollection(st, collectionId) ==
    [st EXCEPT !.enabledCollectionId = collectionId]

setLastRotationDate(st, lastRotationDate) ==
    [st EXCEPT !.lastRotationDate = lastRotationDate]

setPendingRotationCollection(st, collectionId) ==
    [st EXCEPT !.pendingRotationCollectionId = collectionId]

deleteCollection(st, collectionId) ==
    [st EXCEPT
       !.collections = [@ EXCEPT ![collectionId] = "none"],
       !.enabledCollectionId = IF @ = collectionId THEN None ELSE @,
       !.pendingRotationCollectionId = IF @ = collectionId THEN None ELSE @]

\* clearTimeout(timer): one pending timeout less, unless it has fired
clearTimeout(t, n) == IF t.state = "armed" THEN n - 1 ELSE n

\* schedule(): the timer armed for the next midnight
scheduledTimer == [state |-> "armed", due |-> today + 1]

\* plausible slip: a new timer is set without clearing the old one
scheduledPendingNoClear(t, n) == n + 1

\* schedule(): the pending timeouts after clearTimeout and setTimeout
scheduledPending(t, n) == clearTimeout(t, n) + 1

\* plausible slip: the prompt is shown whether the window is focused or not
midnightDecisionAlwaysPrompt(st, active) ==
    IF st.enabledCollectionId = None THEN "return"
    ELSE IF st.lastRotationDate = today THEN "return"
    ELSE IF st.collections[st.enabledCollectionId] # "full" THEN "return"
    ELSE "prompt"

\* plausible slip: the date of the last rotation is not looked at
midnightDecisionNoDateCheck(st, active) ==
    IF st.enabledCollectionId = None THEN "return"
    ELSE IF st.collections[st.enabledCollectionId] # "full" THEN "return"
    ELSE IF active THEN "prompt"
    ELSE "rotate"

\* handleMidnight up to its first await (wallpaper.ts:80-97)
midnightDecision(st, active) ==
    IF st.enabledCollectionId = None THEN "return"
    ELSE IF st.lastRotationDate = today THEN "return"
    ELSE IF st.collections[st.enabledCollectionId] # "full" THEN "return"
    ELSE IF active THEN "prompt"
    ELSE "rotate"

\* plausible slip: the date is recorded before the checks are made
midnightStoreMarksDate(st, active) == setLastRotationDate(st, today)

\* the store after handleMidnight's first segment: the checks and the
\* prompt write nothing (wallpaper.ts:80-103)
midnightStore(st, active) == st

\* what a midnight callback finds: the decision, and for an early return
\* the check that made it
midnightFound(st, active) ==
    IF midnightDecision(st, active) # "return" THEN midnightDecision(st, active)
    ELSE IF st.enabledCollectionId = None THEN "no collection"
    ELSE IF st.lastRotationDate = today THEN "same date"
    ELSE "no wallpapers"

FreeMids == {p \in Mids : flow[p].pc = "idle"}

\* the timer callback has finished handleMidnight and calls schedule()
\* (wallpaper.ts:67-70)
midnightEnds(p) ==
    /\ flow' = [flow EXCEPT ![p] = IdleFlow]
    /\ rotTimer' = scheduledTimer
    /\ rotPending' = scheduledPending(rotTimer, rotPending)

\* midnight passes
RotTick ==
    /\ today < MaxDays
    /\ today' = today + 1
    /\ UNCHANGED <<store, rotTimer, rotPending, flow, cmd, phase, disposed,
                   applied, fires, starts>>

\* the armed timer fires: handleMidnight runs to its first await or to
\* its early return, after which the callback calls schedule()
RotTimerFires(active) ==
    /\ rotTimer.state = "armed"
    /\ rotPending > 0
    /\ today >= rotTimer.due
    /\ FreeMids # {}
    /\ fires' = [n |-> fires.n + 1, found |-> midnightFound(store, active),
                 active |-> active]
    /\ LET p == CHOOSE q \in FreeMids : \A r \in FreeMids : q <= r
           fired == [rotTimer EXCEPT !.state = "fired"]
           decision == midnightDecision(store, active)
       IN  IF decision = "return"
           THEN /\ rotTimer' = scheduledTimer
                /\ rotPending' = scheduledPending(fired, rotPending - 1)
                /\ UNCHANGED flow
           ELSE /\ rotTimer' = fired
                /\ rotPending' = rotPending - 1
                /\ flow' = [flow EXCEPT ![p] =
                              [IdleFlow EXCEPT
                                 !.pc = IF decision = "prompt" THEN "prompt" ELSE "cfg",
                                 !.coll = store.enabledCollectionId]]
    /\ store' = midnightStore(store, active)
    /\ UNCHANGED <<cmd, today, phase, disposed, applied, starts>>

\* what showInformationMessage resolves with: one of the three buttons,
\* or nothing when the message is dismissed (wallpaper.ts:98-103)
Selections ==
    {"Apply now", "Change on next startup", "Skip today", "dismissed"}

\* plausible slip: skipping also drops the deferred rotation
PromptAnsweredSkipClears(p, selection) ==
    /\ flow[p].pc = "prompt"
    /\ IF selection = "Apply now"
       THEN /\ flow' = [flow EXCEPT ![p].pc = "cfg"]
            /\ UNCHANGED store
       ELSE IF selection = "Change on next startup"
       THEN /\ store' = setPendingRotationCollection(store, flow[p].coll)
            /\ flow' = [flow EXCEPT ![p].pc = "deferSave"]
       ELSE /\ store' = setPendingRotationCollection(
                            setLastRotationDate(store, today), None)
            /\ flow' = [flow EXCEPT ![p].pc = "saveDate"]
    /\ UNCHANGED <<rotTimer, rotPending, cmd, today, phase, disposed, applied,
                   fires, starts>>

\* showInformationMessage resolved (wallpaper.ts:98-118)
PromptAnswered(p, selection) ==
    /\ flow[p].pc = "prompt"
    /\ IF selection = "Apply now"
       THEN /\ flow' = [flow EXCEPT ![p].pc = "cfg"]
            /\ UNCHANGED store
       ELSE IF selection = "Change on next startup"
       THEN /\ store' = setPendingRotationCollection(store, flow[p].coll)
            /\ flow' = [flow EXCEPT ![p].pc = "deferSave"]
       ELSE /\ store' = setLastRotationDate(store, today)
            /\ flow' = [flow EXCEPT ![p].pc = "saveDate"]
    /\ UNCHANGED <<rotTimer, rotPending, cmd, today, phase, disposed, applied,
                   fires, starts>>

\* applyWallpaper: the four settings updates resolved, setActiveWallpaper
\* is called (wallpaper.ts:9-19)
ConfigUpdated(p) ==
    /\ flow[p].pc = "cfg"
    /\ store' = setActiveWallpaper(store, today)
    /\ applied' = [applied EXCEPT ![today] = @ + 1]
    /\ flow' = [flow EXCEPT ![p] = [@ EXCEPT !.pc = "saveActive", !.rotated = TRUE]]
    /\ UNCHANGED <<rotTimer, rotPending, cmd, today, phase, disposed, fires,
                   starts>>

\* applyWallpaper: a settings update rejects; handleMidnight or
\* initialize rejects with it and schedule() is not reached
ConfigFails(p) ==
    /\ flow[p].pc = "cfg"
    /\ flow' = [flow EXCEPT ![p].pc = "idle"]
    /\ phase' = IF p = 0 THEN "failed" ELSE phase
    /\ UNCHANGED <<store, rotTimer, rotPending, cmd, today, disposed, applied,
                   fires, starts>>

\* setActiveWallpaper saved, install() done, setLastRotationDate is called
\* (wallpaper.ts:21, 131)
ActiveSaved(p) ==
    /\ flow[p].pc = "saveActive"
    /\ store' = setLastRotationDate(store, today)
    /\ flow' = [flow EXCEPT ![p].pc = "saveDate"]
    /\ UNCHANGED <<rotTimer, rotPending, cmd, today, phase, disposed, applied,
                   fires, starts>>

\* setPendingRotationCollection(collection.id) saved, setLastRotationDate
\* is called (wallpaper.ts:111-112)
DeferSaved(p) ==
    /\ flow[p].pc = "deferSave"
    /\ store' = setLastRotationDate(store, today)
    /\ flow' = [flow EXCEPT ![p].pc = "saveDate"]
    /\ UNCHANGED <<rotTimer, rotPending, cmd, today, phase, disposed, applied,
                   fires, starts>>

\* plausible slip: initialize() arms the timer without clearing the marker
DateSavedKeepsMarker(p) ==
    /\ flow[p].pc = "saveDate"
    /\ IF flow[p].startup
       THEN /\ flow' = [flow EXCEPT ![p].pc = "idle"]
            /\ rotTimer' = scheduledTimer
            /\ rotPending' = scheduledPending(rotTimer, rotPending)
            /\ phase' = "ready"
       ELSE /\ midnightEnds(p)
            /\ UNCHANGED phase
    /\ UNCHANGED <<store, cmd, today, disposed, applied, fires, starts>>

\* setLastRotationDate saved: handleMidnight returns and the callback calls
\* schedule(); in initialize() the pending marker is cleared next
\* (wallpaper.ts:56)
DateSaved(p) ==
    /\ flow[p].pc = "saveDate"
    /\ IF flow[p].startup
       THEN /\ store' = setPendingRotationCollection(store, None)
            /\ flow' = [flow EXCEPT ![p].pc = "clearSave"]
            /\ UNCHANGED <<rotTimer, rotPending>>
       ELSE /\ midnightEnds(p)
            /\ UNCHANGED store
    /\ UNCHANGED <<cmd, today, phase, disposed, applied, fires, starts>>

\* initialize(): setPendingRotationCollection(null) saved, schedule() is
\* called and initialize() returns (wallpaper.ts:56-59)
ClearSaved ==
    /\ flow[0].pc = "clearSave"
    /\ flow' = [flow EXCEPT ![0].pc = "idle"]
    /\ rotTimer' = scheduledTimer
    /\ rotPending' = scheduledPending(rotTimer, rotPending)
    /\ phase' = "ready"
    /\ UNCHANGED <<store, cmd, today, disposed, applied, fires, starts>>

\* the extension host starts: a new scheduler, and activate() calls
\* initialize(), which runs to its first await (wallpaper.ts:49-59)
Activate ==
    /\ starts < MaxStarts
    /\ starts' = starts + 1
    /\ disposed' = FALSE
    /\ cmd' = [pc |-> "idle", coll |-> None]
    /\ LET pendingCollectionId == store.pendingRotationCollectionId
           fresh == [state |-> "none", due |-> 0]
           idle == [f \in 0 .. NumMid |-> IdleFlow]
       IN  IF pendingCollectionId = None
           THEN /\ rotTimer' = scheduledTimer
                /\ rotPending' = scheduledPending(fresh, 0)
                /\ flow' = idle
                /\ phase' = "ready"
                /\ UNCHANGED store
           ELSE IF store.collections[pendingCollectionId] = "full"
           THEN /\ rotTimer' = fresh
                /\ rotPending' = 0
                /\ flow' = [idle EXCEPT ![0] =
                              [IdleFlow EXCEPT !.pc = "cfg",
                                               !.coll = pendingCollectionId,
                                               !.startup = TRUE,
                                               !.hadPending = pendingCollectionId]]
                /\ phase' = "init"
                /\ UNCHANGED store
           ELSE /\ rotTimer' = fresh
                /\ rotPending' = 0
                /\ store' = setPendingRotationCollection(store, None)
                /\ flow' = [idle EXCEPT ![0] =
                              [IdleFlow EXCEPT !.pc = "clearSave",
                                               !.startup = TRUE,
                                               !.hadPending = pendingCollectionId]]
                /\ phase' = "init"
    /\ UNCHANGED <<today, applied, fires>>

\* dispose() (wallpaper.ts:73-78)
Dispose ==
    /\ phase # "off"
    /\ disposed' = TRUE
    /\ IF rotTimer.state # "none"
       THEN /\ rotPending' = clearTimeout(rotTimer, rotPending)
            /\ rotTimer' = [state |-> "none", due |-> 0]
       ELSE UNCHANGED <<rotTimer, rotPending>>
    /\ UNCHANGED <<store, flow, cmd, today, phase, applied, fires, starts>>

\* the commands are served once activate() has run and until the
\* extension is deactivated
Serving == phase = "ready" /\ ~disposed /\ cmd.pc = "idle"

\* createCollection, addWallpaper, removeWallpaper of the store
CmdCreateCollection(c) ==
    /\ Serving
    /\ store.collections[c] = "none"
    /\ store' = [store EXCEPT !.collections[c] = "empty"]
    /\ UNCHANGED <<rotTimer, rotPending, flow, cmd, today, phase, disposed,
                   applied, fires, starts>>

CmdAddWallpaper(c) ==
    /\ Serving
    /\ store.collections[c] = "empty"
    /\ store' = [store EXCEPT !.collections[c] = "full"]
    /\ UNCHANGED <<rotTimer, rotPending, flow, cmd, today, phase, disposed,
                   applied, fires, starts>>

CmdRemoveWallpaper(c) ==
    /\ Serving
    /\ store.collections[c] = "full"
    /\ store' = [store EXCEPT !.collections[c] = "empty"]
    /\ UNCHANGED <<rotTimer, rotPending, flow, cmd, today, phase, disposed,
                   applied, fires, starts>>

\* background.rotation.deferUntilStartup (part_002:345-353)
CmdDeferUntilStartup ==
    /\ Serving
    /\ store.enabledCollectionId # None
    /\ store' = setPendingRotationCollection(store, store.enabledCollectionId)
    /\ UNCHANGED <<rotTimer, rotPending, flow, cmd, today, phase, disposed,
                   applied, fires, starts>>

\* background.collections.enableDailyRotation (part_002:323-343) up to the
\* first await
CmdEnable(c) ==
    /\ Serving
    /\ store.collections[c] # "none"
    /\ store' = setEnabledCollection(store, c)
    /\ cmd' = [pc |-> "enabled", coll |-> c]
    /\ UNCHANGED <<rotTimer, rotPending, flow, today, phase, disposed,
                   applied, fires, starts>>

\* ... setEnabledCollection saved (part_002:336)
CmdEnableSaved ==
    /\ cmd.pc = "enabled"
    /\ store' = setPendingRotationCollection(store, None)
    /\ cmd' = [cmd EXCEPT !.pc = "rearm"]
    /\ UNCHANGED <<rotTimer, rotPending, flow, today, phase, disposed,
                   applied, fires, starts>>

\* background.collections.delete (part_002:243-265) up to the await of
\* deleteCollection
CmdDelete(c) ==
    /\ Serving
    /\ store.collections[c] # "none"
    /\ store' = deleteCollection(store, c)
    /\ cmd' = [pc |-> "rearm", coll |-> c]
    /\ UNCHANGED <<rotTimer, rotPending, flow, today, phase, disposed,
                   applied, fires, starts>>

\* the store has saved; the command calls scheduler.schedule()
\* (part_002:264, 338)
CmdSchedule ==
    /\ cmd.pc = "rearm"
    /\ cmd' = [pc |-> "idle", coll |-> None]
    /\ rotTimer' = scheduledTimer
    /\ rotPending' = scheduledPending(rotTimer, rotPending)
    /\ UNCHANGED <<store, flow, today, phase, disposed, applied, fires,
                   starts>>

notRot == <<sysVars, pin, pout, cacheVars, sideVars, treeVars, sw,
           favDuring>>

RotInit == SysInit /\ pin = NoInput /\ pout = NoInput /\ PartsIdle

RotNext ==
    \/ RotTick /\ UNCHANGED notRot
    \/ \E active \in BOOLEAN : RotTimerFires(active) /\ UNCHANGED notRot
    \/ \E p \in Mids, selection \in Selections :
          PromptAnswered(p, selection) /\ UNCHANGED notRot
    \/ \E p \in 0 .. NumMid : ConfigUpdated(p) /\ UNCHANGED notRot
    \/ \E p \in 0 .. NumMid : ConfigFails(p) /\ UNCHANGED notRot
    \/ \E p \in 0 .. NumMid : ActiveSaved(p) /\ UNCHANGED notRot
    \/ \E p \in Mids : DeferSaved(p) /\ UNCHANGED notRot
    \/ \E p \in 0 .. NumMid : DateSaved(p) /\ UNCHANGED notRot
    \/ ClearSaved /\ UNCHANGED notRot
    \/ Activate /\ UNCHANGED notRot
    \/ Dispose /\ UNCHANGED notRot
    \/ \E c \in Colls : CmdCreateCollection(c) /\ UNCHANGED notRot
    \/ \E c \in Colls : CmdAddWallpaper(c) /\ UNCHANGED notRot
    \/ \E c \in Colls : CmdRemoveWallpaper(c) /\ UNCHANGED notRot
    \/ CmdDeferUntilStartup /\ UNCHANGED notRot
    \/ \E c \in Colls : CmdEnable(c) /\ UNCHANGED notRot
    \/ CmdEnableSaved /\ UNCHANGED notRot
    \/ \E c \in Colls : CmdDelete(c) /\ UNCHANGED notRot
    \/ CmdSchedule /\ UNCHANGED notRot

RotationSpec == RotInit /\ [][RotNext]_vars

\* ------------------------------------------------------------------------
\* Both schedulers in one specification.  The sync scheduler keeps its
\* timer in the module state of index.ts and the rotation scheduler in its
\* own field; they share no variable, so each is run through all its
\* behaviours while the other has not started.
\* ------------------------------------------------------------------------
TimersNext ==
    \/ RotIdle /\ Next
    \/ SysInit /\ RotNext

TimersSpec == Init /\ [][TimersNext]_vars

\* ------------------------------------------------------------------------
\* The sidebar search (SidebarWebviewProvider, part_001:408-684), checked on
\* its own.  Request v is the refreshSearch call that drew version v.  A
\* response carries one item naming the request it answers, the page that
\* was asked for as its current page, and any last page.
\* ------------------------------------------------------------------------
\* the response of request v as searchWallhaven delivers it
\* (client.ts:80-125): a result, or a thrown error
searchResult(v, page, lastPage) ==
    [ok |-> TRUE, version |-> v, currentPage |-> page, lastPage |-> lastPage,
     items |-> <<[id |-> v]>>, message |-> "null"]
searchError(v) ==
    [ok |-> FALSE, version |-> v, currentPage |-> 0, lastPage |-> 0,
     items |-> <<>>, message |-> "failed"]

\* refreshSearch up to its first await (part_001:441-446), after the
\* handler has put st into this.state
refreshSearchStarts(st) ==
    /\ refreshVersion < MaxRequests
    /\ refreshVersion' = refreshVersion + 1
    /\ side' = [st EXCEPT !.loading = TRUE, !.error = "null"]
    /\ sreq' = [sreq EXCEPT ![refreshVersion + 1] =
                  [NoRequest EXCEPT !.pc = "sync"]]
    /\ UNCHANGED arrivals

\* message "init" (part_001:497-504); its syncState() posts the state and
\* writes nothing
SideInit ==
    /\ ~initialized
    /\ initialized' = TRUE
    /\ refreshSearchStarts(side)

\* message "search" (part_001:505-510)
SideSearch(query) ==
    /\ refreshSearchStarts([side EXCEPT !.query = query, !.page = 1])
    /\ UNCHANGED initialized

\* message "setSort" (part_001:511-519)
SideSetSort(sort) ==
    /\ refreshSearchStarts([side EXCEPT !.sort = sort, !.page = 1])
    /\ UNCHANGED initialized

\* message "nextPage" (part_001:520-526)
SideNextPage ==
    /\ side.page < side.lastPage
    /\ refreshSearchStarts([side EXCEPT !.page = side.page + 1])
    /\ UNCHANGED initialized

\* message "prevPage" (part_001:527-533)
SidePrevPage ==
    /\ side.page > 1
    /\ refreshSearchStarts([side EXCEPT !.page = side.page - 1])
    /\ UNCHANGED initialized

\* the first syncState() of request v has resolved: searchWallhaven is
\* called with the query, sort and page this.state holds now (part_001:449)
SideSynced(v) ==
    /\ sreq[v].pc = "sync"
    /\ sreq' = [sreq EXCEPT ![v] = [pc |-> "fetch", query |-> side.query,
                                    sort |-> side.sort, page |-> side.page]]
    /\ UNCHANGED <<side, refreshVersion, initialized, arrivals>>

\* plausible slip: the catch block does not reset the loading flag
sideWritesErrorKeepsLoading(v, r) ==
    IF r.ok
    THEN [side EXCEPT !.results = r.items, !.page = r.currentPage,
                      !.lastPage = r.lastPage, !.loading = FALSE]
    ELSE [side EXCEPT !.error = r.message, !.results = <<>>]

\* what request v makes of its response r, without the version test
sideWrites(v, r) ==
    IF r.ok
    THEN [side EXCEPT !.results = r.items, !.page = r.currentPage,
                      !.lastPage = r.lastPage, !.loading = FALSE]
    ELSE [side EXCEPT !.loading = FALSE, !.error = r.message,
                      !.results = <<>>]

sideAppliedNoVersionCheck(v, r) == sideWrites(v, r)

\* what request v makes of its response r (part_001:450-467)
sideApplied(v, r) ==
    IF v # refreshVersion THEN side ELSE sideWrites(v, r)

\* the fetch of request v ends with response r (part_001:449-467); what
\* remains of the call, persistSearchSettings() and syncState()
\* (part_001:469-470, 656-684), writes settings and posts the state and
\* leaves this.state alone
SideResponse(v, r) ==
    /\ sreq[v].pc = "fetch"
    /\ sreq' = [sreq EXCEPT ![v].pc = "done"]
    /\ side' = sideApplied(v, r)
    /\ arrivals' = Append(arrivals, r)
    /\ UNCHANGED <<refreshVersion, initialized>>

notSide == <<sysVars, pin, pout, cacheVars, rotVars, treeVars, sw,
            favDuring>>

SideStart == SysInit /\ pin = NoInput /\ pout = NoInput /\ PartsIdle

SideNext ==
    \/ SideInit /\ UNCHANGED notSide
    \/ \E query \in Queries : SideSearch(query) /\ UNCHANGED notSide
    \/ \E sort \in Sorts : SideSetSort(sort) /\ UNCHANGED notSide
    \/ SideNextPage /\ UNCHANGED notSide
    \/ SidePrevPage /\ UNCHANGED notSide
    \/ \E v \in Versions : SideSynced(v) /\ UNCHANGED notSide
    \/ \E v \in Versions, lastPage \in Pages :
         SideResponse(v, searchResult(v, sreq[v].page, lastPage))
         /\ UNCHANGED notSide
    \/ \E v \in Versions :
         SideResponse(v, searchError(v)) /\ UNCHANGED notSide

SidebarSpec == SideStart /\ [][SideNext]_vars

\* ------------------------------------------------------------------------
\* The search tree view (SearchTreeProvider, part_001:49-110), checked on
\* its own.  The query, sort and page are settings (getters this.query,
\* this.sort, this.page); request n is the n-th refresh() call.  One
\* command that updates settings before it refreshes is in flight at a
\* time; refresh() itself can be called at any moment.
\* ------------------------------------------------------------------------
\* refresh() up to its await (part_001:60-68), the settings being cfg
refreshStarts(cfg) ==
    /\ tstarted < MaxRequests
    /\ tstarted' = tstarted + 1
    /\ tree' = [tree EXCEPT !.loading = TRUE, !.error = "undefined"]
    /\ treq' = [treq EXCEPT ![tstarted + 1] =
                  [pc |-> "fetch", query |-> cfg.query, sort |-> cfg.sort,
                   page |-> cfg.page]]
    /\ UNCHANGED tarrivals

\* command background.search.refresh (part_002:159), and the refresh at
\* the end of activation (part_002:369)
TreeRefresh ==
    /\ thand.pc = "idle"
    /\ refreshStarts(tcfg)
    /\ UNCHANGED <<tcfg, thand>>

\* setQuery is called and awaits its first update (part_001:88-89)
TreeSetQuery(query) ==
    /\ thand.pc = "idle"
    /\ tstarted < MaxRequests
    /\ thand' = [IdleHandler EXCEPT !.pc = "first", !.query = query,
                                    !.sort = tcfg.sort, !.page = 1]
    /\ UNCHANGED <<tree, tcfg, treq, tstarted, tarrivals>>

\* setSort is called and awaits its first update (part_001:94-95)
TreeSetSort(sort) ==
    /\ thand.pc = "idle"
    /\ tstarted < MaxRequests
    /\ thand' = [IdleHandler EXCEPT !.pc = "first", !.query = tcfg.query,
                                    !.sort = sort, !.page = 1]
    /\ UNCHANGED <<tree, tcfg, treq, tstarted, tarrivals>>

\* the first update of setQuery or setSort has been written; the update
\* of the page is awaited (part_001:89-90, 95-96)
TreeFirstUpdated ==
    /\ thand.pc = "first"
    /\ tcfg' = [tcfg EXCEPT !.query = thand.query, !.sort = thand.sort]
    /\ thand' = [thand EXCEPT !.pc = "page"]
    /\ UNCHANGED <<tree, treq, tstarted, tarrivals>>

\* nextPage is called and awaits its update (part_001:100-102)
TreeNextPage ==
    /\ thand.pc = "idle"
    /\ tstarted < MaxRequests
    /\ tcfg.page < tree.lastPage
    /\ thand' = [IdleHandler EXCEPT !.pc = "page", !.page = tcfg.page + 1]
    /\ UNCHANGED <<tree, tcfg, treq, tstarted, tarrivals>>

\* prevPage is called and awaits its update (part_001:107-109)
TreePrevPage ==
    /\ thand.pc = "idle"
    /\ tstarted < MaxRequests
    /\ tcfg.page > 1
    /\ thand' = [IdleHandler EXCEPT !.pc = "page", !.page = tcfg.page - 1]
    /\ UNCHANGED <<tree, tcfg, treq, tstarted, tarrivals>>

\* the update of the page has been written and the command calls
\* refresh() (part_001:90-91, 96-97, 102-103, 109-110)
TreePageUpdated ==
    /\ thand.pc = "page"
    /\ thand' = IdleHandler
    /\ LET cfg == [tcfg EXCEPT !.page = thand.page]
       IN  tcfg' = cfg /\ refreshStarts(cfg)

\* what refresh() makes of the response r (part_001:69-81)
treeApplied(r) ==
    IF r.ok
    THEN [loading |-> FALSE, lastPage |-> r.lastPage, items |-> r.items,
          error |-> "undefined"]
    ELSE [tree EXCEPT !.loading = FALSE, !.error = r.message]

\* the fetch of request n ends with response r (part_001:68-84)
TreeResponse(n, r) ==
    /\ treq[n].pc = "fetch"
    /\ treq' = [treq EXCEPT ![n].pc = "done"]
    /\ tree' = treeApplied(r)
    /\ tarrivals' = Append(tarrivals, r)
    /\ UNCHANGED <<tcfg, thand, tstarted>>

notTree == <<sysVars, pin, pout, cacheVars, rotVars, sideVars, sw,
            favDuring>>

TreeStart == SysInit /\ pin = NoInput /\ pout = NoInput /\ PartsIdle

TreeNext ==
    \/ TreeRefresh /\ UNCHANGED notTree
    \/ \E query \in Queries : TreeSetQuery(query) /\ UNCHANGED notTree
    \/ \E sort \in Sorts : TreeSetSort(sort) /\ UNCHANGED notTree
    \/ TreeFirstUpdated /\ UNCHANGED notTree
    \/ TreeNextPage /\ UNCHANGED notTree
    \/ TreePrevPage /\ UNCHANGED notTree
    \/ TreePageUpdated /\ UNCHANGED notTree
    \/ \E n \in Versions, lastPage \in Pages :
         TreeResponse(n, searchResult(n, treq[n].page, lastPage))
         /\ UNCHANGED notTree
    \/ \E n \in Versions :
         TreeResponse(n, searchError(n)) /\ UNCHANGED notTree

TreeSpec == TreeStart /\ [][TreeNext]_vars

\* ------------------------------------------------------------------------
\* Properties
\* ------------------------------------------------------------------------
\* a step in which the syncNow body in slot p returns (finally has run)
RunEnds(p) == run[p].pc # "idle" /\ run'[p].pc = "idle"

\* a step in which a syncNow call takes the early return
SkipStep == lastReturn' = "skipped" /\ lastReturn # "skipped"

\* C1: at most one syncNow body is in flight at any time, and a syncNow
\* call that takes the early return (as every call made while a sync is
\* running does) returns false and leaves the catalog, the cache files, the
\* running flag and the body in flight alone; it neither arms nor clears a
\* timer (the timer whose callback made the call has merely fired).
C1_SingleFlight ==
    /\ [](Cardinality(InFlight) <= 1 /\ (syncRunning <=> InFlight # {}))
    /\ [][(syncRunning /\ ~SyncGuard(ctx) /\ SkipStep) =>
            /\ UNCHANGED <<catalog, files, syncRunning, run, current, backgrounds>>
            /\ timer' \in {timer, [state |-> "fired", due |-> 0]}]_vars

\* C1 witness: a call was skipped while a body was in flight
C1_Witness == syncRunning /\ InFlight # {} /\ lastReturn = "skipped"

\* C2: when searchWallpapers fails, the body ends in that very step: the
\* persisted catalog carries lastError, syncNow returns false, and feed,
\* favorites and lastSyncAt are what they were before the step.
C2_SearchFailure ==
    [][\A p \in Slots :
          (run[p].pc = "search" /\ run'[p].pc # "search" /\ run'[p].pc # "fetch"
              /\ run'[p].pc # "apply") =>
            /\ run'[p] = IdleRun
            /\ catalog'.lastError # NoError
            /\ lastReturn' = "failed"
            /\ catalog'.feed = catalog.feed
            /\ catalog'.favorites = catalog.favorites
            /\ catalog'.lastSyncAt = catalog.lastSyncAt
            /\ files' = files]_vars

\* C2 witness: a search failure recorded over a catalog that holds a feed,
\* favourites and a lastSyncAt from earlier
C2_Witness ==
    /\ lastRun = "failed"
    /\ ~syncRunning
    /\ catalog.lastError = "search"
    /\ catalog.feed # <<>>
    /\ catalog.favorites # <<>>
    /\ catalog.lastSyncAt # None

\* the candidates of target whose download succeeded, in candidate order
KeptIds(target, outcomes) ==
    LET RECURSIVE kept(_)
        kept(n) == IF n = 0 THEN <<>>
                   ELSE IF outcomes[n] THEN Append(kept(n - 1), target[n])
                   ELSE kept(n - 1)
    IN  kept(Len(outcomes))

\* C3: a failed download never ends the run: the body goes on to the next
\* candidate or, behind the last one, to the catalog update, which is that of
\* a successful run (lastSyncAt set, lastError cleared); every candidate is
\* attempted, and the fresh set is exactly the candidates whose download
\* succeeded, in candidate order.
C3_DownloadFailureIsLocal ==
    /\ [](\A p \in Slots :
            /\ run[p].pc \in {"fetch", "body"} =>
                 /\ Len(run[p].outcomes) = run[p].i - 1
                 /\ IdSeq(run[p].fresh) = KeptIds(run[p].target, run[p].outcomes)
            /\ run[p].pc = "apply" =>
                 /\ Len(run[p].outcomes) = Len(run[p].target)
                 /\ IdSeq(run[p].fresh) = KeptIds(run[p].target, run[p].outcomes))
    /\ [][\A p \in Slots :
            run[p].pc \in {"fetch", "body"} =>
              /\ run'[p].pc \in {"fetch", "body", "apply"}
              /\ run'[p].pc = "apply" =>
                   /\ catalog'.lastError = NoError
                   /\ catalog'.lastSyncAt = now]_vars

\* C3 witness: the first download failed, the second was still attempted
\* and succeeded, and the run went on to update the catalog
C3_Witness ==
    \E p \in Slots :
        /\ run[p].pc = "apply"
        /\ run[p].outcomes = <<FALSE, TRUE>>
        /\ Len(run[p].fresh) = 1

\* C4: a run that returns true leaves a persisted catalog whose lastSyncAt
\* is the instant of that run's catalog update and which has no lastError;
\* and whenever no run is in flight, lastError is present exactly if the
\* last run that passed the guard failed.
C4_LastErrorTracksLastRun ==
    /\ [](~syncRunning => (catalog.lastError # NoError <=> lastRun = "failed"))
    /\ [][\A p \in Slots :
            (RunEnds(p) /\ lastRun' = "ok") =>
              /\ catalog'.lastError = NoError
              /\ catalog'.lastSyncAt = run[p].syncAt
              /\ run[p].syncAt # None]_vars

\* C4 witness: the run before the one in flight failed, and the one in
\* flight has just written its catalog update, which cleared lastError
C4_Witness ==
    \E p \in Slots :
        /\ run[p].pc = "apply"
        /\ lastRun = "failed"
        /\ catalog.lastError = NoError
        /\ catalog.lastSyncAt = run[p].syncAt

\* C5 as stated: every run that ends, whether it succeeded or failed, has
\* released the guard and left a timer armed for the next run.
C5_AlwaysRescheduled ==
    [][\A p \in Slots :
          RunEnds(p) => (~syncRunning' /\ timer'.state = "armed")]_vars

\* C5 amended: every run that ends, whether it succeeded or failed, has
\* released the guard; if sync is enabled at that moment a timer is armed
\* for the next run instant and a further syncNow call would pass the guard,
\* and if sync has been disabled meanwhile no timer is left armed.
C5_RescheduledWhileEnabled ==
    [][\A p \in Slots :
          RunEnds(p) =>
            /\ ~syncRunning'
            /\ enabled => /\ timer' = [state |-> "armed", due |-> getNextRunAt(now)]
                          /\ timer'.due > now
                          /\ catalog'.nextScheduledAt = timer'.due
                          /\ SyncGuard(ctx)'
            /\ ~enabled => timer' = NoTimer]_vars

\* C5 witness: a run has failed, the guard is free and a timer is armed
C5_Witness ==
    /\ lastRun = "failed"
    /\ lastReturn = "failed"
    /\ ~syncRunning
    /\ timer.state = "armed"

\* feed items whose id is not in favorites
NonFavorited(cat) ==
    {k \in DOMAIN cat.feed : cat.feed[k].id \notin IdsOf(cat.favorites)}

\* C6: in every reachable state the number of feed items that are not in
\* favorites is at most the configured maximum cached feed size.
C6_FeedBounded == Cardinality(NonFavorited(catalog)) <= cacheMax

\* C6 witness: a run delivered more fresh ids than the feed may hold while
\* a favourite sits in the feed, and the feed was cut back to the maximum
C6_Witness ==
    \E p \in Slots :
        /\ run[p].pc = "apply"
        /\ Cardinality(IdsOf(run[p].fresh)) > cacheMax
        /\ Len(catalog.feed) = cacheMax
        /\ IdsOf(catalog.feed) \cap IdsOf(catalog.favorites) # {}
        /\ budget.runs > 1

\* the items of a list, as a set
ItemsOf(items) == {items[k] : k \in DOMAIN items}

FirstIndex(items, id) ==
    CHOOSE j \in DOMAIN items :
        items[j].id = id /\ \A i \in DOMAIN items : items[i].id = id => j <= i

\* C8: the feed after mergeFeed holds every id of the fresh set and of the
\* old feed exactly once, each represented by its first entry in "fresh
\* followed by old feed" (so the fresh entry for an id in both), in the
\* order of those first entries; favorites and the metadata are untouched.
C8_MergePrependsFresh ==
    pout.op = "merge" =>
        LET all == pin.fresh \o pin.catalog.feed
            out == pout.catalog.feed
        IN  /\ IdsOf(out) = IdsOf(all)
            /\ UniqueById(out)
            /\ \A k \in DOMAIN out : out[k] = all[FirstIndex(all, out[k].id)]
            /\ \A j, k \in DOMAIN out :
                   j < k => FirstIndex(all, out[j].id) < FirstIndex(all, out[k].id)
            /\ \A id \in IdsOf(pin.fresh) \cap IdsOf(pin.catalog.feed) :
                   out[FirstIndex(out, id)].at = 2
            /\ pout.catalog = [pin.catalog EXCEPT !.feed = out]

\* C8 witness: a merge of two fresh items, one of them already in the feed
C8_Witness ==
    /\ pout.op = "merge"
    /\ Len(pin.fresh) = 2
    /\ Len(pin.catalog.feed) >= 2
    /\ IdsOf(pin.fresh) \cap IdsOf(pin.catalog.feed) # {}
    /\ IdsOf(pin.fresh) \ IdsOf(pin.catalog.feed) # {}

\* C9: merging the same fresh set a second time gives the feed (same
\* entries, same order) that merging it once gives.
C9_MergeIdempotent ==
    pout.op = "mergeTwice" => pout.twice.feed = pout.once.feed

\* C9 witness: a non-empty fresh set merged twice into a non-empty feed it
\* overlaps
C9_Witness ==
    /\ pout.op = "mergeTwice"
    /\ pin.fresh # <<>>
    /\ IdsOf(pin.fresh) \cap IdsOf(pin.catalog.feed) # {}
    /\ pout.twice.feed # pin.catalog.feed

\* C10: in every reachable state no id occurs twice in feed and no id
\* occurs twice in favorites.
C10_UniqueIds == UniqueById(catalog.feed) /\ UniqueById(catalog.favorites)

\* C10 witness: a run merged a fresh set that named one id twice, into a
\* catalog with favourites
C10_Witness ==
    \E p \in Slots :
        /\ run[p].pc = "apply"
        /\ Len(run[p].fresh) = 2
        /\ ~UniqueById(run[p].fresh)
        /\ catalog.feed # <<>>
        /\ Len(catalog.favorites) >= 2

\* the entries of a list whose id is not the given one, in order
Without(items, id) == SelectSeq(items, LAMBDA e : e.id # id)

\* C11: addFavorite returns the favourites with the item in front and no
\* other entry of the item's id, the remaining entries in their old order;
\* removeFavorite returns the favourites without the entries of the given
\* id and with every other entry in place; both leave the feed and the
\* metadata alone, and both return the same favourites when the feed is
\* emptied first, so membership of the id in the feed plays no part.
C11_FavoriteOps ==
    /\ pout.op = "addFavorite" =>
          /\ Head(pout.catalog.favorites) = pout.item
          /\ Tail(pout.catalog.favorites)
                = Without(pin.catalog.favorites, pout.item.id)
          /\ pout.catalog = [pin.catalog EXCEPT !.favorites = pout.catalog.favorites]
          /\ pout.noFeed.favorites = pout.catalog.favorites
    /\ pout.op = "removeFavorite" =>
          /\ \A k \in DOMAIN pout.catalog.favorites :
                 pout.catalog.favorites[k].id # pout.id
          /\ pout.catalog.favorites = Without(pin.catalog.favorites, pout.id)
          /\ pout.catalog = [pin.catalog EXCEPT !.favorites = pout.catalog.favorites]
          /\ pout.noFeed.favorites = pout.catalog.favorites

\* C11 witness: a newer copy of an item that is already a favourite, behind
\* another one, and that is not in the feed, has been added
C11_Witness ==
    /\ pout.op = "addFavorite"
    /\ Len(pin.catalog.favorites) = 2
    /\ pin.catalog.favorites[2].id = pout.item.id
    /\ pin.catalog.favorites[2] # pout.item
    /\ pout.item.id \notin IdsOf(pin.catalog.feed)
    /\ pin.catalog.feed # <<>>

\* C12 as stated: of two downloadImage calls for the same URL that both
\* return, the later one returns the same id and the same localPath as the
\* earlier one, issues no network fetch and writes no file.
C12_SecondCallIsLocal ==
    \A j, k \in DOMAIN dlog :
        (j < k /\ dlog[j].url = dlog[k].url /\ dlog[j].ok /\ dlog[k].ok) =>
            /\ dlog[k].id = dlog[j].id
            /\ dlog[k].localPath = dlog[j].localPath
            /\ dlog[k].fetches = 0
            /\ ~dlog[k].wrote

\* C13 as stated: on no local calendar date does the rotation scheduler
\* apply a rotated wallpaper more than once.
C13_OncePerDate == \A d \in 1 .. MaxDays : applied[d] <= 1

\* a step in which the midnight timer fires
MidnightTick == fires'.n = fires.n + 1

\* a midnight callback that has returned at once: store and flows as they
\* were (no prompt shown, no wallpaper applied, nothing written) and the
\* one timer armed again for the next midnight
TickIsNoOp ==
    /\ store' = store
    /\ flow' = flow
    /\ applied' = applied
    /\ rotTimer' = [state |-> "armed", due |-> today + 1]
    /\ rotPending' = 1

\* C14: a midnight tick that finds no collection enabled changes neither
\* lastRotationDate nor pendingRotationCollectionId nor the active wallpaper
\* (nor anything else in the store), shows no prompt, and arms the timer
\* again.
C14_NoCollectionNoChange ==
    [][(MidnightTick /\ store.enabledCollectionId = None) => TickIsNoOp]_vars

\* C14 witness: a tick has found no collection enabled although a date of
\* rotation and a collection exist
C14_Witness ==
    /\ fires.found = "no collection"
    /\ store.enabledCollectionId = None
    /\ store.lastRotationDate # None
    /\ rotTimer.state = "armed"

\* C15: a midnight tick that finds lastRotationDate equal to today's date
\* shows no prompt, applies no wallpaper, writes nothing to the store, and
\* arms the timer again.
C15_SameDateNoOp ==
    [][(MidnightTick /\ store.lastRotationDate = today) => TickIsNoOp]_vars

\* C15 witness: a tick has found a collection with wallpapers enabled and
\* the rotation of the day already recorded
C15_Witness ==
    /\ fires.found = "same date"
    /\ store.enabledCollectionId # None
    /\ store.collections[store.enabledCollectionId] = "full"
    /\ store.lastRotationDate = today

\* a step in which initialize() returns
InitializeReturns ==
    \/ starts' # starts /\ phase' = "ready"
    \/ starts' = starts /\ flow[0].pc # "idle" /\ flow'[0].pc = "idle"
         /\ phase' = "ready"

\* the order of initialize(): while it is in flight no timer is armed;
\* while it rotates the marker is still set; the marker is cleared before
\* the last await; and when it returns the marker is null and exactly one
\* timer is armed
InitializeOrder ==
    /\ [](phase = "init" => rotPending = 0 /\ rotTimer.state = "none")
    /\ [](flow[0].pc \in {"cfg", "saveActive", "saveDate"} =>
            store.pendingRotationCollectionId = flow[0].hadPending
            /\ flow[0].hadPending # None)
    /\ [](flow[0].pc = "clearSave" => store.pendingRotationCollectionId = None)
    /\ [][InitializeReturns =>
            /\ store'.pendingRotationCollectionId = None
            /\ rotPending' = 1
            /\ rotTimer'.state = "armed"]_vars

C17_DisposedIsTerminal ==
    [][/\ (~disposed /\ disposed') => rotPending' = 0
       /\ (disposed /\ disposed' /\ cmd' = cmd) => rotPending' <= rotPending]_vars

\* C18: each scheduler has at most one timeout pending in the runtime at
\* any time, and that one is the timer its handle holds: a timer that has
\* been replaced is no longer pending and so cannot fire.
C18_OneTimerPending ==
    /\ pendingTimers <= 1
    /\ pendingTimers = 1 <=> timer.state = "armed"
    /\ rotPending <= 1
    /\ rotPending = 1 <=> rotTimer.state = "armed"

\* C18 witness: the timer armed at activation has been replaced by the
\* schedule() call of the command that enabled a collection, no midnight
\* callback has run, and one timer is pending
C18_Witness ==
    /\ starts = 1
    /\ fires.n = 0
    /\ ~disposed
    /\ store.enabledCollectionId # None
    /\ cmd.pc = "idle"
    /\ rotTimer = [state |-> "armed", due |-> today + 1]
    /\ rotPending = 1

\* a step in which the fetch of sidebar request v ends
SideAnswered(v) == sreq[v].pc = "fetch" /\ sreq'[v].pc = "done"
\* the response that came for the request of version v
ArrivalOf(v) ==
    arrivals[CHOOSE i \in 1 .. Len(arrivals) : arrivals[i].version = v]
\* no sidebar request is under way
SideQuiet == \A v \in Versions : sreq[v].pc \in {"none", "done"}

\* C19: a sidebar request that a newer one has superseded by the time its
\* fetch ends writes nothing into the state (results, page, lastPage,
\* loading, error), and once no request is under way the state is the one
\* the newest request made of its own response, whatever the order in
\* which the responses came
C19_StaleDiscarded ==
    /\ [][\A v \in Versions :
            SideAnswered(v) /\ v # refreshVersion => side' = side]_vars
    /\ [](SideQuiet /\ refreshVersion > 0 =>
            LET r == ArrivalOf(refreshVersion)
            IN  /\ ~side.loading
                /\ IF r.ok
                   THEN /\ side.results = r.items
                        /\ side.page = r.currentPage
                        /\ side.lastPage = r.lastPage
                        /\ side.error = "null"
                   ELSE /\ side.results = <<>>
                        /\ side.error = r.message)

\* C19 witness: three requests were made, the response of the newest came
\* first and the responses of the two older ones after it, the oldest one
\* last and with a result, and the state shows the newest result
C19_Witness ==
    /\ refreshVersion = MaxRequests
    /\ SideQuiet
    /\ Len(arrivals) = MaxRequests
    /\ arrivals[1].version = MaxRequests /\ arrivals[1].ok
    /\ arrivals[MaxRequests].version = 1 /\ arrivals[MaxRequests].ok
    /\ side.results = <<[id |-> MaxRequests]>>

\* a step in which the fetch of tree request n ends
TreeAnswered(n) == treq[n].pc = "fetch" /\ treq'[n].pc = "done"

\* C20: when two refresh() calls of the search tree overlap and the fetch
\* of the later-started one has already ended, the end of the fetch of the
\* earlier-started one leaves items, lastPage and error as they are
C20_TreeStaleDiscarded ==
    [][\A n \in Versions :
         TreeAnswered(n)
         /\ (\E m \in Versions : m > n /\ treq[m].pc = "done")
         => /\ tree'.items = tree.items
            /\ tree'.lastPage = tree.lastPage
            /\ tree'.error = tree.error]_vars

\* a step in which initializeWallhaven passes line 344 and returns
InitReturns == initPc # "done" /\ initPc' = "done"

\* C21: when initializeWallhaven runs with sync enabled at or after today's
\* trigger instant and the catalog records no sync since that instant, it
\* calls syncNow and a sync is under way when it returns; when the catalog
\* records a sync at or after today's trigger instant, it starts no sync
\* and arms the timer for the next trigger instead
C21_CatchUpOnce ==
    [][InitReturns /\ enabled /\ now >= withLocalTime(now) =>
         IF catalog.lastSyncAt = None
            \/ catalog.lastSyncAt < withLocalTime(now)
         THEN /\ syncRunning'
              /\ syncRunning \/ budget'.runs = budget.runs + 1
         ELSE /\ run' = run
              /\ budget'.runs = budget.runs
              /\ syncRunning' = syncRunning
              /\ timer' = [state |-> "armed", due |-> getNextRunAt(now)]]_vars

\* C21 witness: a sync has completed at or after today's trigger instant,
\* the host has restarted after it (nothing is selected any more although
\* the feed has images) and the initialization that followed has returned
\* with no sync started and the timer armed
C21_Witness ==
    /\ initPc = "done" /\ ctx /\ enabled
    /\ now >= withLocalTime(now)
    /\ catalog.lastSyncAt # None /\ catalog.lastSyncAt >= withLocalTime(now)
    /\ catalog.feed # <<>>
    /\ lastRun = "ok"
    /\ \A ui \in UISet : current[ui] = None
    /\ ~syncRunning
    /\ budget.runs = 1
    /\ timer.state = "armed"

\* minutes since midnight of a clock time
Clock(hours, minutes) == hours * 60 + minutes
\* the calendar day after a day
NextDay(day) ==
    IF day.date < daysInMonth(day.year, day.month)
    THEN [day EXCEPT !.date = day.date + 1]
    ELSE IF day.month < 11
         THEN [day EXCEPT !.month = day.month + 1, !.date = 1]
         ELSE [year |-> day.year + 1, month |-> 0, date |-> 1]

\* C22: shouldCatchUpNow is true iff the clock time of now is at or after
\* the refresh time and lastSyncAt is absent or lies before today's
\* refresh instant, i.e. on an earlier day or today at an earlier clock time
C22_ShouldCatchUp ==
    pout.op = "shouldCatchUpNow" =>
        (pout.result <=>
            /\ Clock(pin.hours, pin.minutes)
                   >= Clock(pin.trigger.hour, pin.trigger.minute)
            /\ \/ pin.last.absent
               \/ pin.last.daysAgo > 0
               \/ Clock(pin.last.hours, pin.last.minutes)
                      < Clock(pin.trigger.hour, pin.trigger.minute))

\* C22 witness: now is after the refresh time, the last sync was made on
\* the refresh instant itself, and no catch-up is due
C22_Witness ==
    /\ pout.op = "shouldCatchUpNow"
    /\ ~pout.result
    /\ ~pin.last.absent /\ pin.last.daysAgo = 0
    /\ Clock(pin.last.hours, pin.last.minutes)
           = Clock(pin.trigger.hour, pin.trigger.minute)
    /\ Clock(pin.hours, pin.minutes)
           > Clock(pin.trigger.hour, pin.trigger.minute)

\* the calendar day and the clock time of a Date
DayOf(at) ==
    [year |-> getFullYear(at), month |-> getMonth(at), date |-> getDate(at)]
ClockOf(at) == Clock(getHours(at), getMinutes(at))

\* C23: getNextRunAt returns the refresh time of today when now is before
\* it and the refresh time of the next calendar day otherwise, also when
\* that day is in the next month or year, and its result is later than now
C23_NextRunAt ==
    pout.op = "getNextRunAt" =>
        /\ ClockOf(pout.result) = Clock(pin.trigger.hour, pin.trigger.minute)
        /\ DayOf(pout.result) =
              IF Clock(pin.hours, pin.minutes)
                     < Clock(pin.trigger.hour, pin.trigger.minute)
              THEN pin.day ELSE NextDay(pin.day)
        /\ pout.result > dateOf(pin)

\* C23 witness: on the last day of a year, at the refresh time, the next
\* run is on the first day of the next year
C23_Witness ==
    /\ pout.op = "getNextRunAt"
    /\ pin.day.month = 11 /\ pin.day.date = 31
    /\ Clock(pin.hours, pin.minutes)
           = Clock(pin.trigger.hour, pin.trigger.minute)
    /\ DayOf(pout.result) = [year |-> pin.day.year + 1, month |-> 0,
                             date |-> 1]

\* the text of a number below 100 in one digit where it has one, and in
\* two digits
OneDigit(n) == <<Digits[n + 1]>>
TwoDigits(n) == <<Digits[(n \div 10) + 1], Digits[(n % 10) + 1]>>
\* the texts H:mm and HH:mm of an hour and a minute
Written(hour, minute) ==
    {TwoDigits(hour) \o <<":">> \o TwoDigits(minute)}
    \cup (IF hour < 10
          THEN {OneDigit(hour) \o <<":">> \o TwoDigits(minute)} ELSE {})
\* the writings of the times of a day, each with its time
Writings ==
    UNION {{[text |-> w, time |-> [hour |-> h, minute |-> m]] :
               w \in Written(h, m)} : h \in 0 .. 23, m \in 0 .. 59}
WrittenTexts == {w.text : w \in Writings}
TimeWritten == [text \in WrittenTexts |->
                  (CHOOSE w \in Writings : w.text = text).time]
\* the texts that a text is with blanks before and after taken off
Unpadded(text) ==
    {SubSeq(text, a + 1, Len(text) - b) :
        a \in {k \in 0 .. Len(text) : \A j \in 1 .. k : text[j] = " "},
        b \in {k \in 0 .. Len(text) :
                  \A j \in Len(text) - k + 1 .. Len(text) : text[j] = " "}}

\* C24 as claimed: parseRefreshTime returns the hour and minute written in
\* a text of the form H:mm or HH:mm, and null for every other text
C24_ParseExact ==
    pout.op = "parseRefreshTime" =>
        IF pin.text \in WrittenTexts
        THEN pout.result = TimeWritten[pin.text]
        ELSE pout.result = NullTime

\* C24 amended: parseRefreshTime returns the hour and minute written in a
\* text that is of the form H:mm or HH:mm once the white space before and
\* after it is taken off, and null for every other text
C24_ParseTrimmed ==
    pout.op = "parseRefreshTime" =>
        LET cores == Unpadded(pin.text) \cap WrittenTexts
        IN  IF cores # {}
            THEN \A core \in cores : pout.result = TimeWritten[core]
            ELSE pout.result = NullTime

\* C24 witness: a text with a blank in front of a time of one hour digit
\* is read as that time
C24_Witness ==
    /\ pout.op = "parseRefreshTime"
    /\ pin.text = <<" ", "6", ":", "4", "0">>
    /\ pout.result = [hour |-> 6, minute |-> 40]

\* the largest number of candidates the claim allows for options.limit
Clamped(optionsLimit) ==
    IF optionsLimit < 1 THEN 1
    ELSE IF optionsLimit > 100 THEN 100 ELSE optionsLimit
\* s is the beginning of t
IsPrefix(s, t) == Len(s) <= Len(t) /\ s = SubSeq(t, 1, Len(s))

DeferAnswered(p) == flow[p].pc = "prompt" /\ flow'[p].pc = "deferSave"
DeferStamped(p) == flow[p].pc = "deferSave" /\ flow'[p].pc = "saveDate"

\* C26: when the midnight prompt is answered with "Change on next startup",
\* pendingRotationCollectionId is set to the enabled collection, then
\* lastRotationDate is set to today's date, and the active wallpaper is
\* left as it is by both writes
C26_DeferFrame ==
    [][\A p \in Mids :
         /\ DeferAnswered(p) =>
               /\ store'.pendingRotationCollectionId =
                     store.enabledCollectionId
               /\ store'.activeWallpaper = store.activeWallpaper
         /\ DeferStamped(p) =>
               /\ store'.lastRotationDate = today
               /\ store'.activeWallpaper = store.activeWallpaper]_vars

\* a step in which the prompt of midnight flow p is answered with "Skip
\* today" or dismissed
SkipAnswered(p) == flow[p].pc = "prompt" /\ flow'[p].pc = "saveDate"
\* a step in which a midnight flow that stamped the date returns (and not
\* one in which a restart of the host abandons it)
StampReturns(p) ==
    flow[p].pc = "saveDate" /\ flow'[p].pc = "idle" /\ starts' = starts

\* C27: when the midnight prompt is answered with "Skip today" or is
\* dismissed, lastRotationDate is set to today's date and nothing else in
\* the store changes, no wallpaper is applied, and the store stays as it
\* is when handleMidnight returns
C27_SkipStampsOnly ==
    [][\A p \in Mids :
         /\ SkipAnswered(p) =>
               /\ store' = [store EXCEPT !.lastRotationDate = today]
               /\ applied' = applied
         /\ StampReturns(p) => store' = store /\ applied' = applied]_vars

\* C27 witness: a rotation was deferred by command, the midnight prompt of
\* the next day was skipped, and the flow has returned: the date is
\* stamped, the deferred rotation is still pending, nothing was applied
C27_Witness ==
    /\ fires.n = 1 /\ fires.found = "prompt"
    /\ \A p \in 0 .. NumMid : flow[p].pc = "idle"
    /\ store.lastRotationDate = today
    /\ store.pendingRotationCollectionId # None
    /\ store.activeWallpaper = None
    /\ \A d \in 1 .. MaxDays : applied[d] = 0
    /\ starts = 1

\* the store as a midnight callback finds it: a collection with wallpapers
\* is enabled and no rotation is recorded for today
RotationDue ==
    /\ store.enabledCollectionId # None
    /\ store.collections[store.enabledCollectionId] = "full"
    /\ store.lastRotationDate # today

\* a step in which the midnight timer fires
Fired == fires'.n = fires.n + 1

\* the midnight flow started by the step, if it started one
NewFlow == CHOOSE q \in FreeMids : \A r \in FreeMids : q <= r

\* C28: when the midnight timer fires with a collection with wallpapers
\* enabled and no rotation recorded for today, then, if the window is not
\* focused, the rotation starts in the same step without the prompt, and a
\* flow that did not prompt never prompts later; if the window is focused
\* the prompt is shown and nothing is applied by the step, and a flow
\* waiting at the prompt applies nothing until the prompt is answered
C28_PromptOnlyWhenActive ==
    /\ [][Fired /\ RotationDue =>
            /\ flow'[NewFlow].pc = IF fires'.active THEN "prompt" ELSE "cfg"
            /\ applied' = applied
            /\ store' = store]_vars
    /\ [][\A p \in 0 .. NumMid :
            flow'[p].pc = "prompt" =>
              \/ flow[p].pc = "prompt"
              \/ Fired /\ fires'.active /\ flow[p].pc = "idle"]_vars
    /\ [][\A p \in 0 .. NumMid :
            flow[p].pc = "prompt" /\ flow'[p].pc = "prompt" =>
              flow'[p].rotated = flow[p].rotated]_vars
    /\ [](\A p \in 0 .. NumMid : flow[p].pc = "prompt" => ~flow[p].rotated)

\* C28 witness: the timer fired with the window not focused, the rotation
\* it started has applied a wallpaper and stamped the date, and no prompt
\* is open
C28_Witness ==
    /\ fires.n = 1 /\ fires.found = "rotate" /\ ~fires.active
    /\ \E p \in Mids : flow[p].pc = "saveDate" /\ flow[p].rotated
    /\ store.lastRotationDate = today
    /\ store.activeWallpaper = today
    /\ \A p \in 0 .. NumMid : flow[p].pc # "prompt"

\* a step in which flow p starts rotateFromCollection: the wallpaper is
\* picked and handed to applyWallpaper (wallpaper.ts:123-130)
RotationStarts(p) == flow[p].pc # "cfg" /\ flow'[p].pc = "cfg"

\* a step in which flow p, having applied, stamps the date
\* (wallpaper.ts:131)
RotationStamps(p) == flow[p].pc = "saveActive" /\ flow'[p].pc = "saveDate"

\* C29: a rotation picks its wallpaper from the collection that is enabled
\* and has wallpapers when the rotation starts, and after the apply it sets
\* lastRotationDate to today's date; a fire of the midnight timer with an
\* enabled collection without wallpapers starts no flow and applies nothing
C29_RotatesFromEnabled ==
    /\ [][\A p \in 0 .. NumMid :
            RotationStarts(p) =>
              /\ store.enabledCollectionId = flow'[p].coll
              /\ store.collections[flow'[p].coll] = "full"]_vars
    /\ [][\A p \in 0 .. NumMid :
            RotationStamps(p) =>
              flow[p].rotated /\ store'.lastRotationDate = today]_vars
    /\ [][/\ Fired
          /\ store.enabledCollectionId # None
          /\ store.collections[store.enabledCollectionId] = "empty"
          => flow' = flow /\ applied' = applied /\ store' = store]_vars

\* a step that changes the collections or the enabled collection; only the
\* command handlers write these fields
CollectionsChange ==
    \/ store'.collections # store.collections
    \/ store'.enabledCollectionId # store.enabledCollectionId

\* the handler of the running command has a call of schedule() ahead
ScheduleAhead == cmd.pc \in {"enabled", "rearm"}

\* C30: every command that changes the enabled collection or the set of
\* collections and their wallpapers goes on to call schedule(): when such
\* a change is made the handler that made it has the call ahead of it
C30_ChangeRearms ==
    [][CollectionsChange => ScheduleAhead']_vars

\* C31: when searchWallpapers returns, the collected normalized items have
\* reached the limit, or the last page fetched was reported as the last
\* one, or 10 pages have been fetched; and never more than 10 pages are
\* fetched in one call
C31_PagesUntilDone ==
    /\ sw.page <= 10
    /\ sw.pc = "returned" =>
          \/ Len(sw.results) >= sw.limit
          \/ sw.page >= sw.lastPage
          \/ sw.page = 10

\* the positions of a feed whose item is not favourited
NonFavorites(feed, favIds) == {k \in DOMAIN feed : feed[k].id \notin favIds}
\* the n largest members of a set of positions
LastOf(S, n) == {k \in S : Cardinality({j \in S : j > k}) < n}
\* the j-th member of a set of positions, counted from its largest and
\* from its smallest
FromLast(S, j) == CHOOSE k \in S : Cardinality({i \in S : i > k}) = j - 1
FromFirst(S, j) == CHOOSE k \in S : Cardinality({i \in S : i < k}) = j - 1

\* the positions that are evicted from a feed for a budget: from the last
\* non-favourited position backward, as many as the feed is over the
\* budget, or all the non-favourited ones if they are fewer
Evicted(feed, favIds, keep) ==
    LET S == NonFavorites(feed, favIds)
    IN  LastOf(S, Min2(Cardinality(S), Max2(0, Len(feed) - keep)))

\* pruneCatalog has evicted backward down to a budget: the removed list is
\* the evicted items in the order of eviction, the feed is the rest in its
\* old order, and the catalog is otherwise as it was
PrunedBackward(keep) ==
    LET before  == pin.catalog.feed
        after   == pout.result.catalog.feed
        removed == pout.result.removed
        gone    == Evicted(before, IdsOf(pin.catalog.favorites), keep)
        left    == DOMAIN before \ gone
    IN  /\ Len(removed) = Cardinality(gone)
        /\ \A j \in DOMAIN removed : removed[j] = before[FromLast(gone, j)]
        /\ Len(after) = Cardinality(left)
        /\ \A j \in DOMAIN after : after[j] = before[FromFirst(left, j)]
        /\ pout.result.catalog = [pin.catalog EXCEPT !.feed = after]

RemovedBefore(removed, x, y) ==
    \E i, j \in DOMAIN removed : i < j /\ removed[i] = x /\ removed[j] = y

\* the non-favourited items of the merged feed
MergedNonFavorites ==
    {pout.merged[k] : k \in NonFavorites(pout.merged,
                                         IdsOf(pin.catalog.favorites))}

OffsetOf(ui) ==
    CASE ui = "window" -> 0 [] ui = "editor" -> 1 [] ui = "sidebar" -> 2
      [] OTHER -> 3

\* the cyclic rotation of a list by n places to the left
Rotation(items, n) ==
    [k \in DOMAIN items |-> items[((k - 1 + n) % Len(items)) + 1]]

\* the active pool of the catalog that was applied
ActivePool ==
    LET source == IF mode = "favorites" THEN pin.catalog.favorites
                  ELSE pin.catalog.feed
    IN  [k \in DOMAIN source |-> source[k].path]

\* C34: when applyCatalogToBackgrounds has run after a sync or a change of
\* the mode, every surface holds the active pool (the favourites in
\* favorites mode, the feed otherwise) if the mapping is not per-surface,
\* and the cyclic rotation of the pool by the offset of the surface
\* (window 0, editor 1, sidebar 2, panel 3) if it is
C34_SurfacesMapped ==
    pout.op = "applied" =>
        \A ui \in UISet :
            backgrounds[ui] = IF mapping = "perSurface"
                              THEN Rotation(ActivePool, OffsetOf(ui))
                              ELSE ActivePool

\* a step of a syncNow call, of a timer callback or of scheduleNext
SyncStep ==
    \/ run' # run
    \/ syncRunning' # syncRunning
    \/ timer' # timer
    \/ pendingTimers' # pendingTimers
    \/ lastReturn' # lastReturn
    \/ initPc' # initPc

\* the step is a completed likeCurrent or unlike on the favourites now
\* persisted
FavoriteOperation ==
    \/ \E id \in IdsOf(catalog.favorites) :
          catalog' = removeFavorite(catalog, id)
    \/ \E k \in DOMAIN catalog'.favorites :
          catalog' = addFavorite(catalog, catalog'.favorites[k])

\* C35: no step of a sync run (its merge, prune and write, its failure
\* write, its scheduleNext) changes the persisted favourites, whatever
\* favourite operations were completed while it was in flight; the
\* favourites change only by a likeCurrent or unlike applied to the
\* favourites persisted at that moment
C35_FavoritesSurviveSync ==
    [][/\ SyncStep => catalog'.favorites = catalog.favorites
       /\ catalog'.favorites # catalog.favorites => FavoriteOperation]_vars

\* C35 witness: during the first sync run the user's own background was
\* made a favourite; the run has merged, pruned, written and ended with
\* success, and the favourite is in the persisted catalog
C35_Witness ==
    /\ favDuring
    /\ budget.runs = 1
    /\ lastRun = "ok"
    /\ ~syncRunning /\ InFlight = {}
    /\ catalog.feed # <<>>
    /\ Len(catalog.favorites) = 1
    /\ catalog.favorites[1].path = UserPath

\* the id names no collection, or a collection the store holds
NullOrExisting(id) == id = None \/ store.collections[id] # "none"

\* C36: in every state enabledCollectionId and pendingRotationCollectionId
\* are each null or the id of a collection that exists in the store, also
\* when a collection is deleted while the midnight prompt about it is open
C36_IdsNameCollections ==
    /\ NullOrExisting(store.enabledCollectionId)
    /\ NullOrExisting(store.pendingRotationCollectionId)

\* C37: whenever initializeWallhaven has returned, the sync is enabled and
\* no sync run is in flight, a timer for the next run is armed
C37_Schedulable ==
    initPc = "done" /\ enabled /\ ~syncRunning /\ InFlight = {} =>
        timer.state = "armed" /\ pendingTimers > 0

\* C38: whenever no refreshSearch call of the sidebar is waiting for its
\* fetch, however many calls overlapped and whether their fetches ended
\* with a result or with an error, the state has loading = false
C38_LoadingSettles == SideQuiet => ~side.loading

\* C38 witness: three requests overlapped; the newest one failed first,
\* the responses of the two older ones came after it, and the state shows
\* the error with the loading flag down
C38_Witness ==
    /\ refreshVersion = MaxRequests
    /\ SideQuiet
    /\ Len(arrivals) = MaxRequests
    /\ arrivals[1].version = MaxRequests /\ ~arrivals[1].ok
    /\ arrivals[MaxRequests].version = 1 /\ arrivals[MaxRequests].ok
    /\ side.error # "null"
    /\ ~side.loading

\* the cached files that the step deletes
Deleted == files \ files'

\* C39: no step of a sync run deletes a file that is the localPath of an
\* item in favorites, or of an item in the feed, of the catalog the step
\* leaves persisted
C39_KeptFilesSurvive ==
    [][Deleted \cap (PathsOf(catalog'.favorites) \cup PathsOf(catalog'.feed))
         = {}]_vars
====
